---- MODULE Spec2Model ----
(***************************************************************************)
(* A model of the tailfs composition layer:                                *)
(*   - util/pathutil          (Split, IsRoot)                              *)
(*   - tailfs/compositefs     (compositeFileSystem and its routing)        *)
(*   - tailfs/webdavfs        (webdavFS adapter, writeOnlyFile)            *)
(*   - tailfs/remote.go       (fileSystemForRemote, userServer)            *)
(*                                                                         *)
(* Strings are sequences of one-character strings, so that Split, Trim,    *)
(* path.Join and the byte-wise ordering of names are computed rather than  *)
(* assumed.                                                                *)
(***************************************************************************)
EXTENDS Integers, Sequences, FiniteSets, TLC

(***************************************************************************)
(* Bounds of the model.                                                    *)
(***************************************************************************)
\* how many names of NamePool children are named with
NumNames == 2
\* most children the composite holds at once
MaxChildren == 2
\* longest path handed to OpenFile / Mkdir
MaxPathLen == 3
\* longest path handed to OpenFile / Mkdir where only its forwarding is looked at
MaxForwardLen == 4

(***************************************************************************)
(* Strings.                                                                *)
(***************************************************************************)
sepString == "/"

PathChars == {sepString, ".", "a", "b"}

\* the byte value Go's string comparison orders by
CharCode(c) ==
  CASE c = "." -> 46
    [] c = "/" -> 47
    [] c = "a" -> 97
    [] c = "b" -> 98

SeqsUpTo(S, n) == UNION {[1..k -> S] : k \in 0..n}

\* names for children, not in their order
NamePool ==
  << <<"b">>, <<"a", "b">>, <<"a">>, <<"b", "a">>, <<"a", "a">>, <<"b", "b">> >>

ChildNames == {NamePool[i] : i \in 1..NumNames}

Paths == SeqsUpTo(PathChars, MaxPathLen)

\* the longer paths, for the forwarding of a path to a child
LongPaths == SeqsUpTo(PathChars, MaxForwardLen)

\* children[i].name < children[j].name : Go's < on strings (byte-wise)
RECURSIVE Less(_, _)
Less(s, t) ==
  IF t = <<>> THEN FALSE
  ELSE IF s = <<>> THEN TRUE
  ELSE IF Head(s) = Head(t) THEN Less(Tail(s), Tail(t))
  ELSE CharCode(Head(s)) < CharCode(Head(t))

RECURSIVE TrimLeft(_)
TrimLeft(s) ==
  IF s # <<>> /\ Head(s) = sepString THEN TrimLeft(Tail(s)) ELSE s

RECURSIVE TrimRight(_)
TrimRight(s) ==
  IF s # <<>> /\ s[Len(s)] = sepString
  THEN TrimRight(SubSeq(s, 1, Len(s) - 1)) ELSE s

\* strings.Trim(path, "/")
Trim(s) == TrimRight(TrimLeft(s))

\* strings.Split(s, "/"): always at least one element ("" for the empty string)
RECURSIVE StringsSplit(_)
StringsSplit(s) ==
  IF \A i \in 1..Len(s) : s[i] # sepString THEN <<s>>
  ELSE LET i == CHOOSE k \in 1..Len(s) :
                  s[k] = sepString /\ \A j \in 1..(k - 1) : s[j] # sepString
       IN <<SubSeq(s, 1, i - 1)>> \o StringsSplit(SubSeq(s, i + 1, Len(s)))

\* pathutil.IsRoot
IsRoot(path) == Len(path) = 0 \/ (Len(path) = 1 /\ path[1] = sepString)

\* a Split that has no segment at all for the empty path and for the root
SplitRootEmpty(path) ==
  IF IsRoot(path) THEN <<>> ELSE StringsSplit(Trim(path))

\* pathutil.Split
Split(path) == StringsSplit(Trim(path))

\* Split over the paths of the model, evaluated once
SplitOf == [p \in Paths \cup LongPaths |-> Split(p)]

\* the elements joined with "/" between them
RECURSIVE JoinSep(_)
JoinSep(elems) ==
  IF elems = <<>> THEN <<>>
  ELSE IF Len(elems) = 1 THEN elems[1]
  ELSE elems[1] \o <<sepString>> \o JoinSep(Tail(elems))

\* path.Clean's pass over the components of a path: "" and "." are dropped,
\* ".." removes the component before it, or stays when there is none (and
\* is dropped at the root of a rooted path)
RECURSIVE CleanComps(_, _, _)
CleanComps(comps, out, rooted) ==
  IF comps = <<>> THEN out
  ELSE LET c == Head(comps)
           rest == Tail(comps)
       IN IF c = <<>> \/ c = <<".">> THEN CleanComps(rest, out, rooted)
          ELSE IF c = <<".", ".">>
          THEN IF out # <<>> /\ out[Len(out)] # <<".", ".">>
               THEN CleanComps(rest, SubSeq(out, 1, Len(out) - 1), rooted)
               ELSE IF rooted THEN CleanComps(rest, out, rooted)
               ELSE CleanComps(rest, Append(out, c), rooted)
          ELSE CleanComps(rest, Append(out, c), rooted)

\* path.Clean
Clean(p) ==
  IF p = <<>> THEN <<".">>
  ELSE LET rooted == Head(p) = sepString
           body == JoinSep(CleanComps(StringsSplit(p), <<>>, rooted))
       IN IF rooted THEN <<sepString>> \o body
          ELSE IF body = <<>> THEN <<".">> ELSE body

\* the elements from the first non-empty one on
RECURSIVE DropEmpty(_)
DropEmpty(elems) ==
  IF elems # <<>> /\ Head(elems) = <<>> THEN DropEmpty(Tail(elems)) ELSE elems

\* a join that leaves the elements as they are
PathJoinVerbatim(elems) == JoinSep(elems)

\* path.Join: leading empty elements are ignored, the rest joined and cleaned
PathJoin(elems) ==
  IF DropEmpty(elems) = <<>> THEN <<>>
  ELSE Clean(JoinSep(DropEmpty(elems)))

\* path.Join(pathComponents[1:]...) over the paths of the model, evaluated once
RestOf == [p \in Paths \cup LongPaths |-> PathJoin(Tail(Split(p)))]


(***************************************************************************)
(* compositefs: the composite filesystem.                                  *)
(*                                                                         *)
(* One goroutine (the mutator) calls AddChild, RemoveChild and SetChildren *)
(* one after the other; mop is the method it is in, mpc its position there *)
(* and mname, newChildrenMap and oldChildren its locals.  Another goroutine*)
(* (the client) calls OpenFile, Mkdir, GetChild and the root handle's      *)
(* LoadChildren; each of these touches the shared state in one critical    *)
(* section of childrenMu and is one step; ret is the call (op, name, flag, *)
(* perm), what it returned (err, handle, names) and, for a call forwarded  *)
(* to a child, what the child was called with (child, cpath, cflag, cperm).*)
(* The client takes the result (ClientReturn) before its next call.  A     *)
(* child's own filesystem is outside the model: a child is known by its    *)
(* name.                                                                   *)
(***************************************************************************)
VARIABLES children, childrenMap, childrenMu,
          mop, mpc, mname, newChildrenMap, oldChildren,
          ret

cfsVars == <<children, childrenMap, childrenMu,
             mop, mpc, mname, newChildrenMap, oldChildren, ret>>

\* type child struct
child(name) == [name |-> name]

NoChild == [name |-> <<"/">>]

EmptyMap == [n \in {} |-> NoChild]

\* the maps from at most MaxChildren names to their child
ChildMaps ==
  {[n \in S |-> child(n)] :
     S \in {T \in SUBSET ChildNames : Cardinality(T) <= MaxChildren}}

\* the names of a sequence of children, in its order
NamesOf(cs) == [i \in 1..Len(cs) |-> cs[i].name]

NameSet(cs) == {cs[i].name : i \in 1..Len(cs)}

\* sort.Sort(fs.children) with childrenByName.Less, over distinct names
RECURSIVE SortByName(_)
SortByName(S) ==
  IF S = {} THEN <<>>
  ELSE LET m == CHOOSE x \in S : \A y \in S \ {x} : Less(x.name, y.name)
       IN <<m>> \o SortByName(S \ {m})

\* os.O_RDONLY, os.O_WRONLY, os.O_RDWR, os.O_APPEND as sets of bits
O_RDONLY == {}
O_WRONLY == {"O_WRONLY"}
O_RDWR == {"O_RDWR"}
O_APPEND == {"O_APPEND"}

Flags == {O_RDONLY, O_WRONLY, O_RDWR, O_WRONLY \cup O_APPEND}

Perms == {"0644", "0755"}

NoRet ==
  [op |-> "none", name |-> <<>>, flag |-> O_RDONLY, perm |-> "0",
   err |-> "nil", handle |-> "none",
   child |-> NoChild, cpath |-> <<>>, cflag |-> O_RDONLY, cperm |-> "0",
   names |-> <<>>]

\* New(logf, children...): the children sorted, and mapped by name
NewCFS(cs) ==
  /\ children = SortByName(cs)
  /\ childrenMap = [n \in {c.name : c \in cs} |-> child(n)]
  /\ childrenMu = "free"

InitCFS ==
  /\ \E m \in ChildMaps : NewCFS({m[n] : n \in DOMAIN m})
  /\ mop = "none"
  /\ mpc = "idle"
  /\ mname = <<>>
  /\ newChildrenMap = EmptyMap
  /\ oldChildren = <<>>
  /\ ret = NoRet

\* AddChild, up to its Lock
AddChildCall ==
  /\ mpc = "idle"
  /\ \E name \in ChildNames :
       /\ Cardinality(DOMAIN childrenMap \cup {name}) <= MaxChildren
       /\ mname' = name
  /\ mop' = "AddChild"
  /\ mpc' = "lock"
  /\ UNCHANGED <<children, childrenMap, childrenMu, newChildrenMap,
                 oldChildren, ret>>

\* RemoveChild, up to its Lock
RemoveChildCall ==
  /\ mpc = "idle"
  /\ \E name \in ChildNames : mname' = name
  /\ mop' = "RemoveChild"
  /\ mpc' = "lock"
  /\ UNCHANGED <<children, childrenMap, childrenMu, newChildrenMap,
                 oldChildren, ret>>

\* SetChildren, up to its Lock: newChildrenMap is built from the argument
\* (len(cfs.children), read here without the lock, is only the capacity hint)
SetChildrenCall ==
  /\ mpc = "idle"
  /\ \E m \in ChildMaps : newChildrenMap' = m
  /\ mop' = "SetChildren"
  /\ mpc' = "lock"
  /\ UNCHANGED <<children, childrenMap, childrenMu, mname, oldChildren,
                 ret>>

\* a mutator that goes on without taking childrenMu
MutatorLockSkipped ==
  /\ mpc = "lock"
  /\ mpc' = "body"
  /\ UNCHANGED <<children, childrenMap, childrenMu, mop, mname,
                 newChildrenMap, oldChildren, ret>>

\* cfs.childrenMu.Lock() of the three mutators
MutatorLock ==
  /\ mpc = "lock"
  /\ childrenMu = "free"
  /\ childrenMu' = "mutator"
  /\ mpc' = "body"
  /\ UNCHANGED <<children, childrenMap, mop, mname, newChildrenMap,
                 oldChildren, ret>>

\* cfs.childrenMap[name] = c
AddChildPut ==
  /\ mop = "AddChild" /\ mpc = "body"
  /\ childrenMap' =
       [n \in DOMAIN childrenMap \cup {mname} |->
          IF n = mname THEN child(mname) ELSE childrenMap[n]]
  /\ mpc' = "rebuild"
  /\ UNCHANGED <<children, childrenMu, mop, mname, newChildrenMap,
                 oldChildren, ret>>

\* delete(cfs.childrenMap, name)
RemoveChildDelete ==
  /\ mop = "RemoveChild" /\ mpc = "body"
  /\ childrenMap' = [n \in DOMAIN childrenMap \ {mname} |-> childrenMap[n]]
  /\ mpc' = "rebuild"
  /\ UNCHANGED <<children, childrenMu, mop, mname, newChildrenMap,
                 oldChildren, ret>>

\* oldChildren := cfs.children; cfs.childrenMap = newChildrenMap
SetChildrenSwap ==
  /\ mop = "SetChildren" /\ mpc = "body"
  /\ oldChildren' = children
  /\ childrenMap' = newChildrenMap
  /\ mpc' = "rebuild"
  /\ UNCHANGED <<children, childrenMu, mop, mname, newChildrenMap, ret>>

\* the orders in which `for _, c := range m` can yield the children of m:
\* the runtime chooses the order of a range over a map
RECURSIVE RangeOrders(_, _)
RangeOrders(m, keys) ==
  IF keys = {} THEN {<<>>}
  ELSE UNION {{<<m[k]>> \o rest : rest \in RangeOrders(m, keys \ {k})} :
                k \in keys}

\* rebuildChildren, called with childrenMu held: cfs.children is made anew
\* and every child of the map appended, in the order the range yields them
rebuildChildren ==
  /\ mpc = "rebuild"
  /\ \E cs \in RangeOrders(childrenMap, DOMAIN childrenMap) :
       children' = cs
  /\ mpc' = "unlock"
  /\ UNCHANGED <<childrenMap, childrenMu, mop, mname, newChildrenMap,
                 oldChildren, ret>>

\* cfs.childrenMu.Unlock(); AddChild and RemoveChild return
MutatorUnlock ==
  /\ mpc = "unlock"
  /\ childrenMu' = "free"
  /\ mpc' = IF mop = "SetChildren" THEN "close" ELSE "idle"
  /\ mop' = IF mop = "SetChildren" THEN mop ELSE "none"
  /\ mname' = <<>>
  /\ UNCHANGED <<children, childrenMap, newChildrenMap, oldChildren, ret>>

\* SetChildren: the old children are closed, outside the lock; it returns
SetChildrenClose ==
  /\ mpc = "close"
  /\ mpc' = "idle"
  /\ mop' = "none"
  /\ oldChildren' = <<>>
  /\ newChildrenMap' = EmptyMap
  /\ UNCHANGED <<children, childrenMap, childrenMu, mname, ret>>

\* pathToChild: the path left for the child, whether it lies below the
\* child, the child, and the error
pathToChild(cfsChildrenMap, name) ==
  LET pathComponents == SplitOf[name]
      childFound == pathComponents[1] \in DOMAIN cfsChildrenMap
  IN IF ~childFound
     THEN [path |-> name, onChild |-> FALSE, child |-> NoChild,
           err |-> "ErrNotExist"]
     ELSE IF Len(pathComponents) = 1
     THEN [path |-> name, onChild |-> FALSE,
           child |-> cfsChildrenMap[pathComponents[1]], err |-> "nil"]
     ELSE [path |-> RestOf[name], onChild |-> TRUE,
           child |-> cfsChildrenMap[pathComponents[1]], err |-> "nil"]

\* the call, before it has returned anything
OpenFileCall(name, flag, perm) ==
  [NoRet EXCEPT !.op = "OpenFile", !.name = name, !.flag = flag,
                !.perm = perm]

MkdirCall(name, perm) ==
  [NoRet EXCEPT !.op = "Mkdir", !.name = name, !.perm = perm]

\* an OpenFile that hands a child its own name instead of its root
OpenFileResultKeepsName(name, flag, perm) ==
  IF IsRoot(name)
  THEN [OpenFileCall(name, flag, perm) EXCEPT !.handle = "DirFile"]
  ELSE LET r == pathToChild(childrenMap, name)
       IN IF r.err # "nil"
          THEN [OpenFileCall(name, flag, perm) EXCEPT !.err = r.err]
          ELSE [OpenFileCall(name, flag, perm) EXCEPT !.err = "child",
                             !.child = r.child, !.cpath = r.path,
                             !.cflag = flag, !.cperm = perm]

\* what OpenFile returns and, when it forwards, what it calls the child with
\* (err "child": the child's own result, returned as it is)
OpenFileResult(name, flag, perm) ==
  IF IsRoot(name)
  THEN [OpenFileCall(name, flag, perm) EXCEPT !.handle = "DirFile"]
  ELSE LET r == pathToChild(childrenMap, name)
       IN IF r.err # "nil"
          THEN [OpenFileCall(name, flag, perm) EXCEPT !.err = r.err]
          ELSE IF ~r.onChild
          THEN [OpenFileCall(name, flag, perm) EXCEPT !.err = "child",
                             !.child = r.child, !.cpath = <<sepString>>,
                             !.cflag = flag, !.cperm = perm]
          ELSE [OpenFileCall(name, flag, perm) EXCEPT !.err = "child",
                             !.child = r.child, !.cpath = r.path,
                             !.cflag = flag, !.cperm = perm]

\* compositeFileSystem.OpenFile; pathToChild takes childrenMu
OpenFile(name, flag, perm) ==
  /\ ret.op = "none"
  /\ IsRoot(name) \/ childrenMu = "free"
  /\ ret' = OpenFileResult(name, flag, perm)
  /\ UNCHANGED <<children, childrenMap, childrenMu, mop, mpc, mname,
                 newChildrenMap, oldChildren>>

\* a Mkdir that asks the child to make its own root, as OpenFile opens it
MkdirResultForwardsBare(name, perm) ==
  IF IsRoot(name)
  THEN MkdirCall(name, perm)
  ELSE LET r == pathToChild(childrenMap, name)
       IN IF r.err # "nil"
          THEN MkdirCall(name, perm)
          ELSE [MkdirCall(name, perm) EXCEPT !.err = "child",
                             !.child = r.child,
                             !.cpath = IF r.onChild THEN r.path
                                      ELSE <<sepString>>,
                             !.cperm = perm]

\* what Mkdir returns and, when it forwards, what it calls the child with
MkdirResult(name, perm) ==
  IF IsRoot(name)
  THEN MkdirCall(name, perm)
  ELSE LET r == pathToChild(childrenMap, name)
       IN IF ~r.onChild
          THEN MkdirCall(name, perm)
          ELSE IF r.err # "nil"
          THEN [MkdirCall(name, perm) EXCEPT !.err = r.err]
          ELSE [MkdirCall(name, perm) EXCEPT !.err = "child",
                             !.child = r.child, !.cpath = r.path,
                             !.cperm = perm]

\* compositeFileSystem.Mkdir; pathToChild takes childrenMu
Mkdir(name, perm) ==
  /\ ret.op = "none"
  /\ IsRoot(name) \/ childrenMu = "free"
  /\ ret' = MkdirResult(name, perm)
  /\ UNCHANGED <<children, childrenMap, childrenMu, mop, mpc, mname,
                 newChildrenMap, oldChildren>>

\* compositeFileSystem.GetChild
GetChild(name) ==
  /\ ret.op = "none"
  /\ childrenMu = "free"
  /\ ret' = IF name \in DOMAIN childrenMap
            THEN [NoRet EXCEPT !.op = "GetChild", !.name = name, !.child = childrenMap[name]]
            ELSE [NoRet EXCEPT !.op = "GetChild", !.name = name, !.err = "notfound"]
  /\ UNCHANGED <<children, childrenMap, childrenMu, mop, mpc, mname,
                 newChildrenMap, oldChildren>>

\* LoadChildren of the DirFile that OpenFile returned for the root: the
\* names of cfs.children in their order, read under childrenMu
LoadChildren ==
  /\ ret.op = "none"
  /\ ret.handle = "DirFile"
  /\ childrenMu = "free"
  /\ ret' = [NoRet EXCEPT !.op = "LoadChildren", !.handle = "DirFile",
                          !.names = NamesOf(children)]
  /\ UNCHANGED <<children, childrenMap, childrenMu, mop, mpc, mname,
                 newChildrenMap, oldChildren>>

\* the client has taken the result of its call; it keeps the root's DirFile
ClientReturn ==
  /\ ret.op # "none"
  /\ ret' = [NoRet EXCEPT !.handle = ret.handle]
  /\ UNCHANGED <<children, childrenMap, childrenMu, mop, mpc, mname,
                 newChildrenMap, oldChildren>>

\* the client's calls, over the inputs of the model
OpenFileAny ==
  /\ ret.op = "none"
  /\ \E name \in Paths, flag \in Flags, perm \in Perms :
       OpenFile(name, flag, perm)

MkdirAny ==
  /\ ret.op = "none"
  /\ \E name \in Paths, perm \in Perms : Mkdir(name, perm)

GetChildAny ==
  /\ ret.op = "none"
  /\ \E name \in ChildNames : GetChild(name)

\* the client's calls with the longer paths
OpenFileLong ==
  /\ ret.op = "none"
  /\ \E name \in LongPaths, flag \in Flags, perm \in Perms :
       OpenFile(name, flag, perm)

MkdirLong ==
  /\ ret.op = "none"
  /\ \E name \in LongPaths, perm \in Perms : Mkdir(name, perm)

\* ret only records the client's last call for the claims to read and
\* nothing of the program reads it, so the mutator's steps are taken with
\* the record cleared (ClientReturn is always enabled and changes nothing
\* else: no interleaving of the program is lost)
Taken == ret.op = "none"


(***************************************************************************)
(* Claims about the composite filesystem, checked under SpecCFS.           *)
(***************************************************************************)
\* a step in which the client's call returns
ClientStep(op) == ret.op = "none" /\ ret'.op = op

\* the first segment of a path, as pathToChild takes it
FirstSegment(name) == SplitOf[name][1]

\* whether a path is one segment: a bare name
IsBare(name) == Len(SplitOf[name]) = 1

StrictlySorted(names) ==
  \A i, j \in 1..Len(names) : i < j => Less(names[i], names[j])

\* C1: listing the root returns the children's names in strict lexicographic
\* order, whatever the order of insertion or of map iteration.
C1_ListingSorted ==
  ret.op = "LoadChildren" => StrictlySorted(ret.names)

\* the child set before and after the SetChildren call in progress
PreNames == IF mpc = "lock" THEN DOMAIN childrenMap ELSE NameSet(oldChildren)

PostNames == DOMAIN newChildrenMap

\* C2: a root listing, a GetChild or a pathToChild lookup that runs while
\* SetChildren is in progress sees the name map and the listing sequence in
\* agreement, both holding the complete child set from before the call or
\* the complete child set from after it, and what it returns is that set's.
C2_SetChildrenAtomic ==
  [][(mop = "SetChildren" /\ ret.op = "none" /\ ret'.op # "none"
      /\ ~(ret'.op \in {"OpenFile", "Mkdir"} /\ IsRoot(ret'.name)))
     => /\ NameSet(children) = DOMAIN childrenMap
        /\ Len(children) = Cardinality(DOMAIN childrenMap)
        /\ DOMAIN childrenMap \in {PreNames, PostNames}
        /\ ret'.op = "LoadChildren" =>
             {ret'.names[i] : i \in 1..Len(ret'.names)} = DOMAIN childrenMap
        /\ ret'.op = "GetChild" =>
             (ret'.err = "nil" <=> ret'.name \in NameSet(children))
        /\ ret'.op = "OpenFile" =>
             (ret'.err = "ErrNotExist"
                <=> FirstSegment(ret'.name) \notin NameSet(children))
    ]_cfsVars

\* C2's case: a listing taken before SetChildren has returned shows the
\* complete new child set, which differs from the old one
C2_Witness ==
  /\ mop = "SetChildren" /\ mpc = "close"
  /\ ret.op = "LoadChildren"
  /\ {ret.names[i] : i \in 1..Len(ret.names)} = PostNames
  /\ PostNames # PreNames
  /\ PostNames # {} /\ PreNames # {}

\* C6: Mkdir of a non-root path whose first segment names no child returns
\* a not-exist error and calls no child.
C6_MkdirUnknownNotExist ==
  [][(ClientStep("Mkdir") /\ ~IsRoot(ret'.name)
      /\ FirstSegment(ret'.name) \notin DOMAIN childrenMap)
     => (ret'.err = "ErrNotExist" /\ ret'.child = NoChild)
    ]_cfsVars

\* C7: Mkdir of the root or of the bare name of a child succeeds, calls no
\* child and leaves the map and the listing sequence as they were; Mkdir of
\* a longer path below a child is forwarded to that child.
C7_MkdirFrame ==
  [][ClientStep("Mkdir") =>
       /\ (IsRoot(ret'.name)
           \/ (IsBare(ret'.name)
               /\ FirstSegment(ret'.name) \in DOMAIN childrenMap))
          => /\ ret'.err = "nil"
             /\ ret'.child = NoChild
             /\ UNCHANGED <<children, childrenMap>>
       /\ (~IsRoot(ret'.name) /\ ~IsBare(ret'.name)
           /\ FirstSegment(ret'.name) \in DOMAIN childrenMap)
          => /\ ret'.err = "child"
             /\ ret'.child = childrenMap[FirstSegment(ret'.name)]
    ]_cfsVars

\* C7's case: Mkdir of a child's bare name has returned success, no child called
C7_Witness ==
  /\ ret.op = "Mkdir" /\ ret.err = "nil" /\ ret.child = NoChild
  /\ ~IsRoot(ret.name) /\ IsBare(ret.name)
  /\ mpc = "idle"
  /\ FirstSegment(ret.name) \in DOMAIN childrenMap
  /\ Cardinality(DOMAIN childrenMap) = 2

\* C8: OpenFile of a non-root path whose first segment names no child
\* returns not-exist and calls no child; OpenFile of a child's bare name
\* calls that child with "/" and the caller's flags and mode.
C8_OpenFileRouting ==
  [][(ClientStep("OpenFile") /\ ~IsRoot(ret'.name)) =>
       /\ FirstSegment(ret'.name) \notin DOMAIN childrenMap
          => (ret'.err = "ErrNotExist" /\ ret'.child = NoChild)
       /\ (IsBare(ret'.name)
           /\ FirstSegment(ret'.name) \in DOMAIN childrenMap)
          => /\ ret'.err = "child"
             /\ ret'.child = childrenMap[FirstSegment(ret'.name)]
             /\ ret'.child.name = FirstSegment(ret'.name)
             /\ ret'.cpath = <<sepString>>
             /\ ret'.cflag = ret'.flag
             /\ ret'.cperm = ret'.perm
    ]_cfsVars

\* C8's case: a write-mode open of a child's bare name was forwarded to it
C8_Witness ==
  /\ ret.op = "OpenFile" /\ ret.err = "child"
  /\ IsBare(ret.name)
  /\ ret.child.name = FirstSegment(ret.name)
  /\ ret.cpath = <<sepString>>
  /\ ret.flag = O_WRONLY /\ ret.cflag = O_WRONLY

(***************************************************************************)
(* webdavfs: the adapter of a remote client, its stat cache and the        *)
(* write-only file.                                                        *)
(*                                                                         *)
(* remote is the backend the gowebdav client talks to: what lies at each   *)
(* path.  Every call of the client is one step that reads or changes       *)
(* remote, or fails (a status error 404, or any other error, a timeout     *)
(* included) and changes nothing.  effects counts the mutations that have  *)
(* taken effect on the backend; a cache entry remembers the count at the   *)
(* time it was fetched.                                                    *)
(*                                                                         *)
(* Thread "op" calls the adapter's methods and the methods of the          *)
(* write-only file it holds, one after the other; thread "stat" calls      *)
(* Stat.  The upload goroutine of the write-only file is a third thread.   *)
(* aret, writeRet and sret are what the last call of a method, of Write    *)
(* and of Stat returned, and closeRet what the Close of the present        *)
(* write-only file returned.                                               *)
(* The statCache type is not among the sources: getOrFetch, invalidate and *)
(* expiry are modelled from its specification.                             *)
(***************************************************************************)
VARIABLES remote, effects, cacheOn, statCache,
          apc, acall, aret, ncalls,
          gpc, gname, gval, sret,
          hname, pipe, writeError, upc, writeRet, closeRet

wfsVars == <<remote, effects, cacheOn, statCache, apc, acall, aret, ncalls,
             gpc, gname, gval, sret,
             hname, pipe, writeError, upc, writeRet, closeRet>>

\* the state of getOrFetch in each thread, and of the write-only file
fetchVars == <<gpc, gname, gval>>
fileVars == <<hname, pipe, writeError, upc, closeRet>>

\* calls of the adapter's methods thread "op" makes
MaxCalls == 2

\* the paths the adapter is called with
WPaths == {"/d", "/f"}

\* what lies at a path of the backend
RemoteVals == {"none", "dir", "file"}

StatThreads == {"op", "stat"}

NoEntry == [val |-> "none", at |-> -1]

NoStat == [err |-> "none", val |-> "none", at |-> -1, hit |-> FALSE]

NoCall == [op |-> "none", name |-> "", newName |-> ""]

hasFlag(flags, flag) == flag \subseteq flags

\* translateWebDAVError
translateWebDAVError(err) ==
  IF err = "nil" THEN "nil"
  ELSE IF err = "StatusError404" THEN "ErrNotExist"
  ELSE "unexpected WebDAV error"

\* the outcomes of Client.Stat(name): the error and the FileInfo
ClientStat(name) ==
  {[err |-> "OtherError", val |-> "none"]}
    \cup (IF remote[name] = "none"
          THEN {[err |-> "StatusError404", val |-> "none"]}
          ELSE {[err |-> "nil", val |-> remote[name]]})

\* webdavfs.New on a backend, with or without StatCacheTTL
InitWFS ==
  /\ remote \in [WPaths -> RemoteVals]
  /\ effects = 0
  /\ cacheOn \in BOOLEAN
  /\ statCache = [p \in WPaths |-> NoEntry]
  /\ apc = "idle"
  /\ acall = NoCall
  /\ aret = "none"
  /\ ncalls = 0
  /\ gpc = [t \in StatThreads |-> "idle"]
  /\ gname = [t \in StatThreads |-> ""]
  /\ gval = [t \in StatThreads |-> NoEntry]
  /\ sret = [t \in StatThreads |-> NoStat]
  /\ hname = ""
  /\ pipe = "none"
  /\ writeError = "nil"
  /\ upc = "none"
  /\ writeRet = "none"
  /\ closeRet = "none"

\* statCache.invalidate(), when the cache is enabled
Invalidated == IF cacheOn THEN [p \in WPaths |-> NoEntry] ELSE statCache

\* thread "op" is between calls and may make another one
OpIdle == apc = "idle" /\ ncalls < MaxCalls

\* webdavFS.Mkdir, up to the call of the client: the cache is invalidated
WfsMkdirInvalidate(name) ==
  /\ OpIdle
  /\ acall' = [NoCall EXCEPT !.op = "Mkdir", !.name = name]
  /\ statCache' = Invalidated
  /\ apc' = "Mkdir"
  /\ ncalls' = ncalls + 1
  /\ UNCHANGED <<remote, effects, cacheOn, aret, fetchVars, sret, fileVars,
                 writeRet>>

\* webdavFS.Mkdir: translateWebDAVError(wfs.Client.Mkdir(...))
WfsMkdirCall ==
  /\ apc = "Mkdir"
  /\ \/ /\ remote[acall.name] = "none"
        /\ remote' = [remote EXCEPT ![acall.name] = "dir"]
        /\ effects' = effects + 1
        /\ aret' = translateWebDAVError("nil")
     \/ /\ aret' = translateWebDAVError("OtherError")
        /\ UNCHANGED <<remote, effects>>
  /\ apc' = "idle"
  /\ acall' = NoCall
  /\ UNCHANGED <<cacheOn, statCache, ncalls, fetchVars, sret, fileVars,
                 writeRet>>

\* webdavFS.RemoveAll, up to the call of the client
WfsRemoveAllInvalidate(name) ==
  /\ OpIdle
  /\ acall' = [NoCall EXCEPT !.op = "RemoveAll", !.name = name]
  /\ statCache' = Invalidated
  /\ apc' = "RemoveAll"
  /\ ncalls' = ncalls + 1
  /\ UNCHANGED <<remote, effects, cacheOn, aret, fetchVars, sret, fileVars,
                 writeRet>>

\* webdavFS.RemoveAll: return wfs.Client.RemoveAll(...), the error as it is
WfsRemoveAllCall ==
  /\ apc = "RemoveAll"
  /\ \/ /\ remote' = [remote EXCEPT ![acall.name] = "none"]
        /\ effects' = effects + 1
        /\ aret' = "nil"
     \/ /\ aret' = "OtherError"
        /\ UNCHANGED <<remote, effects>>
  /\ apc' = "idle"
  /\ acall' = NoCall
  /\ UNCHANGED <<cacheOn, statCache, ncalls, fetchVars, sret, fileVars,
                 writeRet>>

\* webdavFS.Rename, up to the call of the client
WfsRenameInvalidate(oldName, newName) ==
  /\ OpIdle
  /\ acall' = [op |-> "Rename", name |-> oldName, newName |-> newName]
  /\ statCache' = Invalidated
  /\ apc' = "Rename"
  /\ ncalls' = ncalls + 1
  /\ UNCHANGED <<remote, effects, cacheOn, aret, fetchVars, sret, fileVars,
                 writeRet>>

\* webdavFS.Rename: return wfs.Client.Rename(...), the error as it is
WfsRenameCall ==
  /\ apc = "Rename"
  /\ \/ /\ remote[acall.name] # "none"
        /\ acall.newName # acall.name
        /\ remote' = [remote EXCEPT ![acall.newName] = remote[acall.name],
                                    ![acall.name] = "none"]
        /\ effects' = effects + 1
        /\ aret' = "nil"
     \/ /\ remote[acall.name] = "none"
        /\ aret' = "StatusError404"
        /\ UNCHANGED <<remote, effects>>
     \/ /\ aret' = "OtherError"
        /\ UNCHANGED <<remote, effects>>
  /\ apc' = "idle"
  /\ acall' = NoCall
  /\ UNCHANGED <<cacheOn, statCache, ncalls, fetchVars, sret, fileVars,
                 writeRet>>

\* webdavFS.OpenFile with O_APPEND: refused at once
WfsOpenFileAppend(name, flag) ==
  /\ OpIdle
  /\ hasFlag(flag, O_APPEND)
  /\ ncalls' = ncalls + 1
  /\ aret' = "PathError: mode APPEND not supported"
  /\ UNCHANGED <<remote, effects, cacheOn, statCache, apc, acall, fetchVars,
                 sret, fileVars, writeRet>>

\* webdavFS.OpenFile for writing, up to Client.Stat: the cache is invalidated.
\* (The model holds one write-only file at a time: the upload of the one
\* before has ended.)
WfsOpenFileWriteInvalidate(name, flag) ==
  /\ OpIdle
  /\ upc \in {"none", "done"}
  /\ ~hasFlag(flag, O_APPEND)
  /\ hasFlag(flag, O_WRONLY) \/ hasFlag(flag, O_RDWR)
  /\ acall' = [NoCall EXCEPT !.op = "OpenFile", !.name = name]
  /\ statCache' = Invalidated
  /\ apc' = "OpenFile:write"
  /\ ncalls' = ncalls + 1
  /\ UNCHANGED <<remote, effects, cacheOn, aret, fetchVars, sret, fileVars,
                 writeRet>>

\* webdavFS.OpenFile for writing, from Client.Stat on: an error other than
\* not-exist and a directory are refused; otherwise the pipe and the
\* write-only file are made and the upload goroutine started
WfsOpenFileWriteStat ==
  /\ apc = "OpenFile:write"
  /\ \E r \in ClientStat(acall.name) :
       LET err == translateWebDAVError(r.err)
       IN IF err # "nil" /\ err # "ErrNotExist"
          THEN /\ aret' = err
               /\ apc' = "idle"
               /\ UNCHANGED fileVars
          ELSE IF err = "nil" /\ r.val = "dir"
          THEN /\ aret' = "PathError: is a directory"
               /\ apc' = "idle"
               /\ UNCHANGED fileVars
          ELSE /\ aret' = "writeOnlyFile"
               /\ apc' = "file"
               /\ hname' = acall.name
               /\ pipe' = "open"
               /\ writeError' = "nil"
               /\ upc' = "reading"
               /\ closeRet' = "none"
  /\ acall' = NoCall
  /\ UNCHANGED <<remote, effects, cacheOn, statCache, ncalls, fetchVars, sret,
                 writeRet>>

\* webdavFS.OpenFile for reading, up to Client.ReadStream
WfsOpenFileReadStat(name, flag) ==
  /\ OpIdle
  /\ ~hasFlag(flag, O_APPEND)
  /\ ~(hasFlag(flag, O_WRONLY) \/ hasFlag(flag, O_RDWR))
  /\ ncalls' = ncalls + 1
  /\ \E r \in ClientStat(name) :
       IF r.err # "nil"
       THEN aret' = translateWebDAVError(r.err) /\ UNCHANGED <<apc, acall>>
       ELSE IF r.val = "dir"
       THEN aret' = "DirFile" /\ UNCHANGED <<apc, acall>>
       ELSE /\ apc' = "OpenFile:read"
            /\ acall' = [NoCall EXCEPT !.op = "OpenFile", !.name = name]
            /\ UNCHANGED aret
  /\ UNCHANGED <<remote, effects, cacheOn, statCache, fetchVars, sret,
                 fileVars, writeRet>>

\* webdavFS.OpenFile for reading: Client.ReadStream
WfsOpenFileReadStream ==
  /\ apc = "OpenFile:read"
  /\ \/ /\ remote[acall.name] = "file"
        /\ aret' = "readOnlyFile"
     \/ /\ remote[acall.name] = "none"
        /\ aret' = translateWebDAVError("StatusError404")
     \/ aret' = translateWebDAVError("OtherError")
  /\ apc' = "idle"
  /\ acall' = NoCall
  /\ UNCHANGED <<remote, effects, cacheOn, statCache, ncalls, fetchVars, sret,
                 fileVars, writeRet>>

\* What writeOnlyFile.Stat makes of the result of f.fs.Stat: on an error,
\* static info for a newly created file, and no error
StaticFileInfo == [err |-> "nil", val |-> "static", at |-> -1, hit |-> FALSE]

StatReturn(t, r) == IF t = "op" /\ r.err # "nil" THEN StaticFileInfo ELSE r

\* Thread t may start a Stat of name: thread "stat" is another caller of
\* webdavFS.Stat, thread "op" calls it through writeOnlyFile.Stat of the
\* file it holds
StatCallable(t, name) ==
  /\ gpc[t] = "idle"
  /\ t = "op" => apc = "file" /\ name = hname

\* webdavFS.Stat, up to the fetch: with a cache, statCache.getOrFetch looks
\* the name up and returns the cached entry if there is one
WfsStatLookup(t, name) ==
  /\ StatCallable(t, name)
  /\ IF cacheOn /\ statCache[name] # NoEntry
     THEN /\ sret' = [sret EXCEPT ![t] =
                        [err |-> "nil", val |-> statCache[name].val,
                         at |-> statCache[name].at, hit |-> TRUE]]
          /\ UNCHANGED <<gpc, gname>>
     ELSE /\ gpc' = [gpc EXCEPT ![t] = "fetch"]
          /\ gname' = [gname EXCEPT ![t] = name]
          /\ UNCHANGED sret
  /\ UNCHANGED <<remote, effects, cacheOn, statCache, apc, acall, aret, ncalls,
                 gval, fileVars, writeRet>>

\* webdavFS.doStat: Client.Stat and the translation of its error.  Without a
\* cache this is the rest of Stat, with one the result goes on to be stored.
doStat(t) ==
  /\ gpc[t] = "fetch"
  /\ \E r \in ClientStat(gname[t]) :
       IF r.err = "nil" /\ cacheOn
       THEN /\ gval' = [gval EXCEPT ![t] = [val |-> r.val, at |-> effects]]
            /\ gpc' = [gpc EXCEPT ![t] = "store"]
            /\ UNCHANGED <<sret, gname>>
       ELSE /\ sret' = [sret EXCEPT ![t] =
                          StatReturn(t, [err |-> translateWebDAVError(r.err),
                                         val |-> r.val,
                                         at |-> IF r.err = "nil" THEN effects
                                                ELSE -1,
                                         hit |-> FALSE])]
            /\ gpc' = [gpc EXCEPT ![t] = "idle"]
            /\ gname' = [gname EXCEPT ![t] = ""]
            /\ UNCHANGED gval
  /\ UNCHANGED <<remote, effects, cacheOn, statCache, apc, acall, aret, ncalls,
                 fileVars, writeRet>>

\* statCache.getOrFetch after a successful fetch: the result is stored and
\* returned
WfsStatStore(t) ==
  /\ gpc[t] = "store"
  /\ statCache' = [statCache EXCEPT ![gname[t]] = gval[t]]
  /\ sret' = [sret EXCEPT ![t] =
                [err |-> "nil", val |-> gval[t].val, at |-> gval[t].at,
                 hit |-> FALSE]]
  /\ gpc' = [gpc EXCEPT ![t] = "idle"]
  /\ gname' = [gname EXCEPT ![t] = ""]
  /\ gval' = [gval EXCEPT ![t] = NoEntry]
  /\ UNCHANGED <<remote, effects, cacheOn, apc, acall, aret, ncalls,
                 fileVars, writeRet>>

\* The TTL of a cached entry runs out
CacheExpire(name) ==
  /\ cacheOn
  /\ statCache[name] # NoEntry
  /\ statCache' = [statCache EXCEPT ![name] = NoEntry]
  /\ UNCHANGED <<remote, effects, cacheOn, apc, acall, aret, ncalls,
                 fetchVars, sret, fileVars, writeRet>>

\* Thread "op" holds the write-only file and is in none of its methods
FileIdle == apc = "file" /\ gpc["op"] = "idle"

\* writeOnlyFile.Write, the load of writeError: a stored error is returned
WriteLoad ==
  /\ FileIdle
  /\ IF writeError # "nil"
     THEN writeRet' = writeError /\ UNCHANGED apc
     ELSE apc' = "Write:pipe" /\ UNCHANGED writeRet
  /\ UNCHANGED <<remote, effects, cacheOn, statCache, acall, aret, ncalls,
                 fetchVars, sret, fileVars>>

\* writeOnlyFile.Write, PipeWriter.Write: the bytes are handed to the reader,
\* or the read side is closed already
WritePipe ==
  /\ apc = "Write:pipe"
  /\ IF pipe = "rclosed"
     THEN writeRet' = "ErrClosedPipe" /\ apc' = "file" /\ UNCHANGED pipe
     ELSE pipe' = "data" /\ apc' = "Write:wait" /\ UNCHANGED writeRet
  /\ UNCHANGED <<remote, effects, cacheOn, statCache, acall, aret, ncalls,
                 fetchVars, sret, hname, writeError, upc, closeRet>>

\* writeOnlyFile.Write, PipeWriter.Write returns: when the reader has taken
\* the bytes, or when it has closed the read side
WriteWait ==
  /\ apc = "Write:wait"
  /\ pipe # "data"
  /\ writeRet' = IF pipe = "rclosed" THEN "ErrClosedPipe" ELSE "nil"
  /\ apc' = "file"
  /\ UNCHANGED <<remote, effects, cacheOn, statCache, acall, aret, ncalls,
                 fetchVars, sret, fileVars>>

\* writeOnlyFile.Close, the load of writeError: a stored error is returned
CloseLoad ==
  /\ FileIdle
  /\ IF writeError # "nil"
     THEN closeRet' = writeError /\ apc' = "idle"
     ELSE apc' = "Close:pipe" /\ UNCHANGED closeRet
  /\ UNCHANGED <<remote, effects, cacheOn, statCache, acall, aret, ncalls,
                 fetchVars, sret, hname, pipe, writeError, upc, writeRet>>

\* writeOnlyFile.Close, PipeWriter.Close: the reader gets EOF from now on, and
\* the result is nil whatever the reader does
ClosePipe ==
  /\ apc = "Close:pipe"
  /\ pipe' = IF pipe = "rclosed" THEN pipe ELSE "eof"
  /\ closeRet' = "nil"
  /\ apc' = "idle"
  /\ UNCHANGED <<remote, effects, cacheOn, statCache, acall, aret, ncalls,
                 fetchVars, sret, hname, writeError, upc, writeRet>>

\* The upload goroutine, Client.WriteStream reading the pipe: it takes the
\* bytes of a Write
UploadRead ==
  /\ upc = "reading"
  /\ pipe = "data"
  /\ pipe' = "open"
  /\ UNCHANGED <<remote, effects, cacheOn, statCache, apc, acall, aret, ncalls,
                 fetchVars, sret, hname, writeError, upc, writeRet, closeRet>>

\* Client.WriteStream reads EOF: the whole body has been sent
UploadEOF ==
  /\ upc = "reading"
  /\ pipe = "eof"
  /\ upc' = "sent"
  /\ UNCHANGED <<remote, effects, cacheOn, statCache, apc, acall, aret, ncalls,
                 fetchVars, sret, hname, pipe, writeError, writeRet, closeRet>>

\* Client.WriteStream returns an error before it has read EOF (the
\* connection fails, the server refuses the request)
UploadAbort ==
  /\ upc = "reading"
  /\ upc' = "failed"
  /\ UNCHANGED <<remote, effects, cacheOn, statCache, apc, acall, aret, ncalls,
                 fetchVars, sret, hname, pipe, writeError, writeRet, closeRet>>

\* Client.WriteStream returns after the body has been sent: the file is on
\* the backend, or the server answers with an error
UploadResponse ==
  /\ upc = "sent"
  /\ \/ /\ remote' = [remote EXCEPT ![hname] = "file"]
        /\ effects' = effects + 1
        /\ upc' = "ok"
     \/ /\ upc' = "failed"
        /\ UNCHANGED <<remote, effects>>
  /\ UNCHANGED <<cacheOn, statCache, apc, acall, aret, ncalls,
                 fetchVars, sret, hname, pipe, writeError, writeRet, closeRet>>

\* The upload goroutine after WriteStream: f.writeError.Store(writeErr)
UploadStoreError ==
  /\ upc = "failed"
  /\ writeError' = "WriteStreamError"
  /\ upc' = "stored"
  /\ UNCHANGED <<remote, effects, cacheOn, statCache, apc, acall, aret, ncalls,
                 fetchVars, sret, hname, pipe, writeRet, closeRet>>

\* The upload goroutine ends: the deferred pipeReader.Close()
UploadClosePipe ==
  /\ upc \in {"ok", "stored"}
  /\ pipe' = "rclosed"
  /\ upc' = "done"
  /\ UNCHANGED <<remote, effects, cacheOn, statCache, apc, acall, aret, ncalls,
                 fetchVars, sret, hname, writeError, writeRet, closeRet>>

\* aret, writeRet and sret only record what the last calls returned for the
\* claims to read and nothing of the program reads them, so the program's
\* steps are taken with the records cleared (TakeResults is always enabled
\* and changes nothing else: no interleaving of the program is lost)
Delivered ==
  /\ aret = "none"
  /\ writeRet = "none"
  /\ \A t \in StatThreads : sret[t] = NoStat

TakeResults ==
  /\ ~Delivered
  /\ aret' = "none"
  /\ writeRet' = "none"
  /\ sret' = [t \in StatThreads |-> NoStat]
  /\ UNCHANGED <<remote, effects, cacheOn, statCache, apc, acall, ncalls,
                 fetchVars, fileVars>>

(***************************************************************************)
(* Claims about the WebDAV adapter, checked under SpecWFS.                 *)
(***************************************************************************)

\* no mutating operation is in progress: thread "op" is in no call and
\* holds no handle, and no upload is running
Quiescent == apc = "idle" /\ upc \in {"none", "done"}

\* the upload goroutine's WriteStream has returned an error
UploadFailed == upc \in {"failed", "stored"} \/ writeError # "nil"

\* C9: on an adapter with the stat cache enabled, once every mutating
\* operation has completed (Mkdir, RemoveAll, Rename, or a write-mode
\* OpenFile with the Close of its handle and its upload), a Stat that is
\* answered from the cache is never answered with an entry fetched before a
\* mutation took effect on the backend: the entry was fetched at the
\* backend's present state.
C9_StatFreshAfterMutation ==
  [][\A t \in StatThreads :
       (cacheOn /\ Quiescent /\ sret'[t] # sret[t] /\ sret'[t].hit)
         => sret'[t].at = effects]_wfsVars

\* C10: when the upload goroutine of a write-only file ends with an error,
\* the Close of the file has returned that error: Close has never returned
\* success for a file whose upload failed.
C10_CloseReportsUploadError ==
  (closeRet # "none" /\ UploadFailed) => closeRet = "WriteStreamError"

\* the errors of the remote client as it returns them
RawErrors == {"StatusError404", "OtherError"}

\* C15: no operation of the adapter (Stat, OpenFile, Mkdir, RemoveAll,
\* Rename) returns an error of the remote client as it is: a not-found
\* status comes back as the not-exist error and any other error as the
\* unexpected-WebDAV-error value.
C15_ErrorsTranslated ==
  /\ aret \notin RawErrors
  /\ \A t \in StatThreads : sret[t].err \notin RawErrors

(***************************************************************************)
(* tailfs: the filesystem for remote nodes (fileSystemForRemote) and its   *)
(* user servers.                                                           *)
(*                                                                         *)
(* shares, userServers and fileServerAddr are the fields mx guards;        *)
(* allowShareAs is what AllowShareAs() returns on this platform and        *)
(* permissions the Permissions of the connecting node.  A userServer is    *)
(* the record of its fields closed and addr, the names of its shares and   *)
(* the position of its runLoop goroutine.  A record SetShares has replaced *)
(* is closed by the call and is out of the model from then on: no request  *)
(* that starts later can reach it.                                         *)
(* ServeHTTP is one step: resp is the request (method, path), whether a    *)
(* composite filesystem was built for it, the status the gate answered or  *)
(* "forwarded", the names of the composite's children and what the         *)
(* request's path resolves to in the composite (pathToChild).  The         *)
(* Permissions type is not among the sources: For is modelled from its     *)
(* specification.                                                          *)
(***************************************************************************)
VARIABLES shares, userServers, fileServerAddr, allowShareAs, permissions,
          resp

dspVars == <<shares, userServers, fileServerAddr, allowShareAs, permissions,
             resp>>

\* longest request path
MaxReqLen == 3

\* the names of the shares, the local users they are shared as, and the
\* shares SetShares is called with
ShareNames == {<<"a">>, <<"b">>}

Users == {"u1", "u2"}

SharePool ==
  {[Name |-> <<"a">>, As |-> "u1"],
   [Name |-> <<"b">>, As |-> "u1"],
   [Name |-> <<"b">>, As |-> "u2"]}

\* map[string]*Share, each share under its name
ShareMaps ==
  UNION {{m \in [S -> SharePool] : \A n \in S : m[n].Name = n} :
           S \in SUBSET ShareNames}

NoShares == [n \in {} |-> [Name |-> <<>>, As |-> ""]]

\* the address a file server or a user server announces
ServerAddr == "127.0.0.1:8080"

PermissionLevels == {"PermissionNone", "PermissionReadOnly",
                     "PermissionReadWrite"}

\* Permissions.For(share)
For(perms, share) ==
  IF share \in DOMAIN perms THEN perms[share] ELSE "PermissionNone"

\* var writeMethods
writeMethods ==
  {"PUT", "POST", "COPY", "LOCK", "UNLOCK", "MKCOL", "MOVE", "PROPPATCH"}

\* the methods of the requests
Methods == writeMethods \cup {"GET", "DELETE"}

\* the URL paths of the requests
ReqPaths ==
  {p \in Paths : Len(p) <= MaxReqLen /\ \A i \in 1..Len(p) : p[i] # "."}

NoResp ==
  [method |-> "none", path |-> <<>>, status |-> "none", built |-> FALSE,
   children |-> {}, err |-> "nil", child |-> NoChild]

\* &userServer{logf: s.logf} with the shares SetShares appends to it
NewUserServer(names) ==
  [shares |-> names, closed |-> FALSE, addr |-> "", pc |-> "runLoop"]

NoServers == [u \in {} |-> NewUserServer({})]

\* NewFileSystemForRemote, on a platform and for a connecting node
InitDsp ==
  /\ shares = NoShares
  /\ userServers = NoServers
  /\ fileServerAddr = ""
  /\ allowShareAs \in BOOLEAN
  /\ permissions \in [ShareNames -> PermissionLevels]
  /\ resp = NoResp

\* SetFileServerAddr; it is called on the platforms that cannot start user
\* servers and rely on the file server of the UI application
SetFileServerAddr(addr) ==
  /\ ~allowShareAs
  /\ fileServerAddr' = addr
  /\ UNCHANGED <<shares, userServers, allowShareAs, permissions, resp>>

\* userServer.Close: closed is set (and the subprocess killed, which lets
\* run return)
userServerClose(server) == [server EXCEPT !.closed = TRUE]

\* SetShares: without AllowShareAs only the shares are replaced; with it one
\* server per user is made and started, shares and servers are replaced
\* under mx and the old servers closed
SetShares(newShares) ==
  /\ shares' = newShares
  /\ IF ~allowShareAs
     THEN UNCHANGED userServers
     ELSE userServers' =
            [u \in {newShares[n].As : n \in DOMAIN newShares} |->
               NewUserServer({n \in DOMAIN newShares : newShares[n].As = u})]
  /\ UNCHANGED <<fileServerAddr, allowShareAs, permissions, resp>>

\* fileSystemForRemote.Close: every user server is closed
Close ==
  /\ userServers # NoServers
  /\ userServers' = [u \in DOMAIN userServers |->
                       userServerClose(userServers[u])]
  /\ UNCHANGED <<shares, fileServerAddr, allowShareAs, permissions, resp>>

\* userServer.runLoop, the top of the loop: it returns once closed, and
\* calls run otherwise
runLoop(u) ==
  /\ u \in DOMAIN userServers
  /\ userServers[u].pc = "runLoop"
  /\ userServers' = [userServers EXCEPT ![u].pc =
                       IF userServers[u].closed THEN "returned" ELSE "run"]
  /\ UNCHANGED <<shares, fileServerAddr, allowShareAs, permissions, resp>>

\* userServer.run up to cmd.Wait: the subprocess is started and the address
\* it prints is stored
run(u) ==
  /\ u \in DOMAIN userServers
  /\ userServers[u].pc = "run"
  /\ userServers' = [userServers EXCEPT ![u].addr = ServerAddr,
                                        ![u].pc = "Wait"]
  /\ UNCHANGED <<shares, fileServerAddr, allowShareAs, permissions, resp>>

\* userServer.run returns, with an error before the address is read or when
\* the subprocess has exited, and runLoop sleeps and loops
runReturn(u) ==
  /\ u \in DOMAIN userServers
  /\ userServers[u].pc \in {"run", "Wait"}
  /\ userServers' = [userServers EXCEPT ![u].pc = "runLoop"]
  /\ UNCHANGED <<shares, fileServerAddr, allowShareAs, permissions, resp>>

\* a check of a write that lets a read-only node write
gatePassesReadOnly(perms, method, path) ==
  LET isWrite == method \in writeMethods
      share == SplitOf[path][1]
  IN IF isWrite /\ For(perms, share) = "PermissionNone"
     THEN "StatusNotFound"
     ELSE "pass"

\* ServeHTTP, the check of a write: the status it answers, or "pass"
gate(perms, method, path) ==
  LET isWrite == method \in writeMethods
      share == SplitOf[path][1]
  IN IF isWrite /\ For(perms, share) = "PermissionNone"
     THEN "StatusNotFound"
     ELSE IF isWrite /\ For(perms, share) = "PermissionReadOnly"
     THEN "StatusForbidden"
     ELSE "pass"

\* ServeHTTP, the address of a share's server: the file server's, or the one
\* of the user server of share.As if there is one
addrOf(share) ==
  IF ~allowShareAs THEN fileServerAddr
  ELSE IF share.As \in DOMAIN userServers THEN userServers[share.As].addr
  ELSE ""

\* a loop over sharesMap that leaves out only the shares without address
childrenForAnyPermission(perms, sharesMap, addrs) ==
  {sharesMap[n].Name : n \in {k \in DOMAIN sharesMap : addrs[k] # ""}}

\* a loop over sharesMap that leaves out only the shares without permission
childrenForAnyAddr(perms, sharesMap, addrs) ==
  {sharesMap[n].Name :
     n \in {k \in DOMAIN sharesMap :
              For(perms, sharesMap[k].Name) # "PermissionNone"}}

\* ServeHTTP, the loop over sharesMap: the names of the children, a share
\* without permission or without address left out
childrenFor(perms, sharesMap, addrs) ==
  {sharesMap[n].Name :
     n \in {k \in DOMAIN sharesMap :
              /\ For(perms, sharesMap[k].Name) # "PermissionNone"
              /\ addrs[k] # ""}}

\* a ServeHTTP that answers a write without permission with not-found only
\* if the share does not exist
ServeChecksExistence(perms, sharesMap, addrs, method, path) ==
  LET status == gate(perms, method, path)
      names == childrenFor(perms, sharesMap, addrs)
      r == pathToChild([n \in names |-> child(n)], path)
  IN IF status = "StatusNotFound" /\ SplitOf[path][1] \in DOMAIN sharesMap
     THEN [NoResp EXCEPT !.method = method, !.path = path,
                         !.status = "StatusForbidden"]
     ELSE IF status # "pass"
     THEN [NoResp EXCEPT !.method = method, !.path = path, !.status = status]
     ELSE [method |-> method, path |-> path, status |-> "forwarded",
           built |-> TRUE, children |-> names, err |-> r.err,
           child |-> r.child]

\* ServeHTTP for a request, on the snapshot of the shares and the addresses
\* read for them: the answer of the gate, or the composite filesystem built
\* (compositefs.New, SetChildren) and handed to the webdav.Handler
Serve(perms, sharesMap, addrs, method, path) ==
  LET status == gate(perms, method, path)
      names == childrenFor(perms, sharesMap, addrs)
      r == pathToChild([n \in names |-> child(n)], path)
  IN IF status # "pass"
     THEN [NoResp EXCEPT !.method = method, !.path = path, !.status = status]
     ELSE [method |-> method, path |-> path, status |-> "forwarded",
           built |-> TRUE, children |-> names, err |-> r.err,
           child |-> r.child]

\* fileSystemForRemote.ServeHTTP
ServeHTTP(method, path) ==
  /\ resp' = Serve(permissions, shares,
                   [n \in DOMAIN shares |-> addrOf(shares[n])], method, path)
  /\ UNCHANGED <<shares, userServers, fileServerAddr, allowShareAs,
                 permissions>>

\* the response has been written
Responded ==
  /\ resp # NoResp
  /\ resp' = NoResp
  /\ UNCHANGED <<shares, userServers, fileServerAddr, allowShareAs,
                 permissions>>

\* resp only records the last request for the claims to read and nothing of
\* the program reads it, so the other steps are taken with the record
\* cleared (Responded is always enabled and changes nothing else: no
\* interleaving of the program is lost)
NoRequest == resp = NoResp

(***************************************************************************)
(* Claims about the dispatcher, checked under SpecDispatch.  resp is read  *)
(* in the state the request was served in: nothing else moves before the   *)
(* response is written.                                                    *)
(***************************************************************************)

\* the write-class methods
WriteClass ==
  {"PUT", "POST", "COPY", "LOCK", "UNLOCK", "MKCOL", "MOVE", "PROPPATCH"}

\* the share a request is aimed at
Target == FirstSegment(resp.path)

\* the address share n is served at, "" if there is none yet
ShareAddr(n) ==
  IF ~allowShareAs THEN fileServerAddr
  ELSE IF shares[n].As \in DOMAIN userServers
  THEN userServers[shares[n].As].addr
  ELSE ""

\* share n exists and has an address
Served(n) == n \in DOMAIN shares /\ ShareAddr(n) # ""

\* C3: a request of any method for a path in a share on which the node's
\* permission is None is never answered forbidden: a write method is
\* answered not-found without a composite being built, and for any other
\* method the share is not among the composite's children and the path
\* resolves to not-exist.
C3_NoneIsNotFound ==
  (/\ resp.status # "none"
   /\ Target \in ShareNames
   /\ permissions[Target] = "PermissionNone")
    => /\ resp.status # "StatusForbidden"
       /\ IF resp.method \in WriteClass
          THEN resp.status = "StatusNotFound" /\ ~resp.built
          ELSE /\ resp.status = "forwarded"
               /\ Target \notin resp.children
               /\ resp.err = "ErrNotExist"

\* a GET below an existing share with an address and without permission,
\* served on a composite that has another child
C3_Witness ==
  /\ resp.status = "forwarded"
  /\ resp.method = "GET"
  /\ Target \in ShareNames
  /\ permissions[Target] = "PermissionNone"
  /\ Served(Target)
  /\ Len(SplitOf[resp.path]) > 1
  /\ resp.children # {}

\* C4: a node whose permission on the share a request is aimed at is
\* ReadOnly is answered forbidden for every write-class method, without a
\* composite being built or the request forwarded; for any other method
\* the request is forwarded on a composite that has the share among its
\* children when the share exists and has an address.
C4_ReadOnlyWriteForbidden ==
  (/\ resp.status # "none"
   /\ Target \in ShareNames
   /\ permissions[Target] = "PermissionReadOnly")
    => IF resp.method \in WriteClass
       THEN resp.status = "StatusForbidden" /\ ~resp.built
            /\ resp.children = {}
       ELSE /\ resp.status = "forwarded"
            /\ resp.built
            /\ Served(Target) => Target \in resp.children

\* a PROPPATCH on an existing read-only share with an address
C4_Witness ==
  /\ resp.status = "StatusForbidden"
  /\ resp.method = "PROPPATCH"
  /\ Target \in ShareNames
  /\ permissions[Target] = "PermissionReadOnly"
  /\ Served(Target)

\* the node has a permission on share n
Visible(n) == permissions[n] # "PermissionNone"

\* the share maps that differ from shares only in shares on which the node
\* has no permission
Variants ==
  {m \in ShareMaps :
     \A n \in ShareNames :
       Visible(n) =>
         /\ n \in DOMAIN m <=> n \in DOMAIN shares
         /\ n \in DOMAIN m => m[n] = shares[n]}

\* the addresses the shares of m may be served at, those of the shares the
\* node has a permission on as they are
VariantAddrs(m) ==
  {a \in [DOMAIN m -> {"", ServerAddr}] :
     \A n \in DOMAIN m : Visible(n) => a[n] = ShareAddr(n)}

\* C5: what a request is answered does not depend on the shares on which
\* the node has no permission: on every share map that differs from the
\* present one only in such shares, whatever their addresses, the request
\* gets the same response and the same composite children.
C5_NoExistenceLeak ==
  resp.status # "none" =>
    \A m \in Variants : \A a \in VariantAddrs(m) :
      Serve(permissions, m, a, resp.method, resp.path) = resp

\* a request aimed at an existing share with an address on which the node
\* has no permission, while it has one on the other share, which is served
C5_Witness ==
  /\ resp.status # "none"
  /\ Target \in DOMAIN shares
  /\ ~Visible(Target)
  /\ Served(Target)
  /\ resp.children # {}
  /\ \E m \in Variants : Target \notin DOMAIN m

\* C14: every request that passes the check of a write is forwarded on a
\* composite whose children are exactly the shares of the snapshot on which
\* the node has a permission and whose address, the file server's or the
\* one announced by the user server of the share's identity, is not empty;
\* a share without address is left out and the request still forwarded.
C14_ChildrenAreServedShares ==
  (resp.status # "none" /\ gate(permissions, resp.method, resp.path) = "pass")
    => /\ resp.status = "forwarded"
       /\ resp.built
       /\ resp.children = {n \in DOMAIN shares : Visible(n) /\ ShareAddr(n) # ""}

\* two shares of two identities, both permitted, one user server has
\* announced its address and the other has not: the composite has one child
C14_Witness ==
  /\ resp.status = "forwarded"
  /\ allowShareAs
  /\ \E n \in DOMAIN shares, k \in DOMAIN shares :
       /\ Visible(n) /\ Visible(k)
       /\ ShareAddr(n) = ""
       /\ ShareAddr(k) # ""
       /\ resp.children = {k}

(***************************************************************************)
(* ServeHTTP with the webdav.Handler it hands the request to.              *)
(*                                                                         *)
(* The handler (golang.org/x/net/webdav) turns a request into calls of the *)
(* composite filesystem: GET and POST open the path for reading, PUT opens *)
(* it for writing, MKCOL makes the directory, LOCK of a path that does not *)
(* exist creates it, and COPY opens the path for reading and creates the   *)
(* path of the Destination header (a file for a file, a directory for a    *)
(* directory).  DELETE and MOVE call RemoveAll and Rename of the           *)
(* composite, which are not among the sources: the model follows a call    *)
(* into a child for OpenFile and Mkdir only.  dest is the Destination of   *)
(* the last request and routed the calls that reached a child for it.      *)
(***************************************************************************)
VARIABLES dest, routed

handlerVars == <<dest, routed>>

\* the Destination headers of the requests: a share or a name in a share
DestPaths ==
  {p \in ReqPaths :
     \/ Len(p) = 1 /\ p[1] # sepString
     \/ Len(p) = 3 /\ p[1] # sepString /\ p[2] = sepString /\ p[3] # sepString}

\* what the path of a COPY is on the backend
SourceKinds == {"file", "dir", "none"}

InitHandler ==
  /\ dest = <<>>
  /\ routed = {}

\* no request
HandlerAtRest == InitHandler

\* compositeFileSystem.OpenFile on a composite with the given children: the
\* call of child.fs.OpenFile it makes, if any
OpenFileOn(cfsChildrenMap, name, flag) ==
  IF IsRoot(name) THEN {}
  ELSE LET r == pathToChild(cfsChildrenMap, name)
       IN IF r.err # "nil" THEN {}
          ELSE IF ~r.onChild
          THEN {[op |-> "OpenFile", child |-> r.child.name,
                 path |-> <<sepString>>, flag |-> flag]}
          ELSE {[op |-> "OpenFile", child |-> r.child.name,
                 path |-> r.path, flag |-> flag]}

\* compositeFileSystem.Mkdir on a composite with the given children: the
\* call of child.fs.Mkdir it makes, if any
MkdirOn(cfsChildrenMap, name) ==
  IF IsRoot(name) THEN {}
  ELSE LET r == pathToChild(cfsChildrenMap, name)
       IN IF ~r.onChild THEN {}
          ELSE IF r.err # "nil" THEN {}
          ELSE {[op |-> "Mkdir", child |-> r.child.name, path |-> r.path,
                 flag |-> O_RDONLY]}

\* webdav.Handler.ServeHTTP on the composite: the calls that reach a child
HandlerCalls(cfsChildrenMap, method, path, destination, kind) ==
  CASE method \in {"GET", "POST"} ->
         OpenFileOn(cfsChildrenMap, path, O_RDONLY)
    [] method = "PUT" -> OpenFileOn(cfsChildrenMap, path, O_RDWR)
    [] method = "MKCOL" -> MkdirOn(cfsChildrenMap, path)
    [] method = "LOCK" ->
         IF kind = "none" THEN OpenFileOn(cfsChildrenMap, path, O_RDWR) ELSE {}
    [] method = "COPY" ->
         IF destination = path THEN {}
         ELSE OpenFileOn(cfsChildrenMap, path, O_RDONLY)
                \cup (IF OpenFileOn(cfsChildrenMap, path, O_RDONLY) = {}
                      THEN {}
                      ELSE IF kind = "file"
                      THEN OpenFileOn(cfsChildrenMap, destination, O_RDWR)
                      ELSE IF kind = "dir"
                      THEN MkdirOn(cfsChildrenMap, destination)
                      ELSE {})
    [] OTHER -> {}

\* fileSystemForRemote.ServeHTTP with the handler's calls: the gate, the
\* snapshot, the composite and h.ServeHTTP(w, r)
HandleHTTP(method, path, destination, kind) ==
  LET addrs == [n \in DOMAIN shares |-> addrOf(shares[n])]
      r == Serve(permissions, shares, addrs, method, path)
  IN /\ resp' = r
     /\ dest' = destination
     /\ routed' = IF r.status = "forwarded"
                  THEN HandlerCalls([n \in r.children |-> child(n)],
                                    method, path, destination, kind)
                  ELSE {}
     /\ UNCHANGED <<shares, userServers, fileServerAddr, allowShareAs,
                    permissions>>

\* the response has been written
Handled ==
  /\ resp # NoResp
  /\ resp' = NoResp
  /\ dest' = <<>>
  /\ routed' = {}
  /\ UNCHANGED <<shares, userServers, fileServerAddr, allowShareAs,
                 permissions>>

(***************************************************************************)
(* SetShares and the snapshot of ServeHTTP at the grain of the lock mx.    *)
(*                                                                         *)
(* A map is a reference: heap[i] holds the share map that the i-th call of *)
(* SetShares was handed and the user servers the call built for it, and    *)
(* sharesRef and userServersRef are the fields s.shares and s.userServers, *)
(* the number of the call whose map they point to (0 for the maps of       *)
(* NewFileSystemForRemote).  A user server here is its shares, its closed  *)
(* flag and, for the claims, whether the caller of Close held mx.          *)
(***************************************************************************)
VARIABLES mx, sharesRef, userServersRef, heap, setters, snapshot

setVars == <<mx, sharesRef, userServersRef, heap, setters, snapshot>>

\* most calls of SetShares
MaxSetShares == 3

\* the goroutines that call SetShares
Setters == {"s1", "s2"}

\* the maps of NewFileSystemForRemote: no shares, no user servers
initialRef == 0

NoSetter == [pc |-> "idle", id |-> initialRef, old |-> initialRef, todo |-> {}]

NoSnapshot ==
  [taken |-> FALSE, sharesMap |-> initialRef, userServers |-> initialRef]

InitSet ==
  /\ mx = "free"
  /\ sharesRef = initialRef
  /\ userServersRef = initialRef
  /\ heap = <<>>
  /\ setters = [c \in Setters |-> NoSetter]
  /\ snapshot = NoSnapshot

\* the share map a reference points to
sharesAt(ref) == IF ref = initialRef THEN NoShares ELSE heap[ref].shares

\* the user servers a reference points to, by identity
userServersAt(ref) == IF ref = initialRef THEN <<>> ELSE heap[ref].servers

\* SetShares without AllowShareAs: nothing to build (the lock comes next)
SetSharesCall(c, newShares) ==
  /\ ~allowShareAs
  /\ setters[c].pc = "idle"
  /\ Len(heap) < MaxSetShares
  /\ heap' = Append(heap, [shares |-> newShares, servers |-> <<>>])
  /\ setters' = [setters EXCEPT ![c].pc = "Lock", ![c].id = Len(heap) + 1]
  /\ UNCHANGED <<mx, sharesRef, userServersRef, snapshot, allowShareAs>>

\* SetShares with AllowShareAs: one user server per share.As, holding the
\* shares of that user, and its runLoop started
SetSharesBuild(c, newShares) ==
  /\ allowShareAs
  /\ setters[c].pc = "idle"
  /\ Len(heap) < MaxSetShares
  /\ heap' = Append(heap,
       [shares |-> newShares,
        servers |->
          [u \in {newShares[n].As : n \in DOMAIN newShares} |->
             [shares |-> {n \in DOMAIN newShares : newShares[n].As = u},
              closed |-> FALSE, locked |-> FALSE]]])
  /\ setters' = [setters EXCEPT ![c].pc = "Lock", ![c].id = Len(heap) + 1]
  /\ UNCHANGED <<mx, sharesRef, userServersRef, snapshot, allowShareAs>>

\* s.mx.Lock()
SetSharesLock(c) ==
  /\ setters[c].pc = "Lock"
  /\ mx = "free"
  /\ mx' = c
  /\ setters' = [setters EXCEPT ![c].pc = "shares"]
  /\ UNCHANGED <<sharesRef, userServersRef, heap, snapshot, allowShareAs>>

\* s.shares = shares
SetSharesStoreShares(c) ==
  /\ setters[c].pc = "shares"
  /\ sharesRef' = setters[c].id
  /\ setters' = [setters EXCEPT ![c].pc =
                   IF allowShareAs THEN "userServers" ELSE "Unlock"]
  /\ UNCHANGED <<mx, userServersRef, heap, snapshot, allowShareAs>>

\* a swap that forgets the user servers it replaces
SetSharesSwapForgetsOld(c) ==
  /\ setters[c].pc = "userServers"
  /\ userServersRef' = setters[c].id
  /\ setters' = [setters EXCEPT ![c].pc = "Unlock"]
  /\ UNCHANGED <<mx, sharesRef, heap, snapshot, allowShareAs>>

\* oldUserServers := s.userServers; s.userServers = userServers
SetSharesSwap(c) ==
  /\ setters[c].pc = "userServers"
  /\ userServersRef' = setters[c].id
  /\ setters' = [setters EXCEPT ![c].pc = "Unlock",
                                ![c].old = userServersRef,
                                ![c].todo = DOMAIN userServersAt(userServersRef)]
  /\ UNCHANGED <<mx, sharesRef, heap, snapshot, allowShareAs>>

\* s.mx.Unlock(); without AllowShareAs SetShares returns here
SetSharesUnlock(c) ==
  /\ setters[c].pc = "Unlock"
  /\ mx' = "free"
  /\ setters' = [setters EXCEPT ![c] =
                   IF allowShareAs THEN [@ EXCEPT !.pc = "Close"]
                   ELSE NoSetter]
  /\ UNCHANGED <<sharesRef, userServersRef, heap, snapshot, allowShareAs>>

\* the loop over oldUserServers, one server.Close(), in the order of the map
SetSharesCloseOld(c) ==
  /\ setters[c].pc = "Close"
  /\ \E u \in setters[c].todo :
       /\ heap' = [heap EXCEPT ![setters[c].old].servers[u] =
                     [@ EXCEPT !.closed = TRUE, !.locked = (mx = c)]]
       /\ setters' = [setters EXCEPT ![c].todo = @ \ {u}]
  /\ UNCHANGED <<mx, sharesRef, userServersRef, snapshot, allowShareAs>>

\* the old user servers are all closed and SetShares returns
SetSharesReturn(c) ==
  /\ setters[c].pc = "Close"
  /\ setters[c].todo = {}
  /\ setters' = [setters EXCEPT ![c] = NoSetter]
  /\ UNCHANGED <<mx, sharesRef, userServersRef, heap, snapshot, allowShareAs>>

\* a snapshot that does not wait for the lock
ServeSnapshotUnlocked ==
  /\ ~snapshot.taken
  /\ snapshot' = [taken |-> TRUE, sharesMap |-> sharesRef,
                  userServers |-> userServersRef]
  /\ UNCHANGED <<mx, sharesRef, userServersRef, heap, setters, allowShareAs>>

\* ServeHTTP: sharesMap := s.shares; userServers := s.userServers between
\* s.mx.RLock() and s.mx.RUnlock()
ServeSnapshot ==
  /\ ~snapshot.taken
  /\ mx = "free"
  /\ snapshot' = [taken |-> TRUE, sharesMap |-> sharesRef,
                  userServers |-> userServersRef]
  /\ UNCHANGED <<mx, sharesRef, userServersRef, heap, setters, allowShareAs>>

\* the request has been handed to the handler and served
ServeReturn ==
  /\ snapshot.taken
  /\ snapshot' = NoSnapshot
  /\ UNCHANGED <<mx, sharesRef, userServersRef, heap, setters, allowShareAs>>

\* snapshot only records the last request for the claims to read, so the
\* other steps are taken with the record cleared
NoSnapshotHeld == ~snapshot.taken

(***************************************************************************)
(* pathutil.Split as a function of its argument: a caller hands it a path  *)
(* and takes the segments it returns.                                      *)
(***************************************************************************)
VARIABLES splitPath, splitPc, segments

splitVars == <<splitPath, splitPc, segments>>

\* no call of Split yet
InitSplit ==
  /\ splitPath = <<>>
  /\ splitPc = "idle"
  /\ segments = <<>>

\* no call of Split
SplitAtRest == InitSplit

\* return strings.Split(strings.Trim(path, sepString), sepString)
SplitReturn ==
  /\ splitPc = "called"
  /\ segments' = Split(splitPath)
  /\ splitPc' = "returned"
  /\ UNCHANGED splitPath

\* a call, with any path
SplitCall(path) ==
  /\ splitPc \in {"idle", "returned"}
  /\ splitPath' = path
  /\ splitPc' = "called"
  /\ segments' = <<>>

(***************************************************************************)
(* The per-identity supervisor (userServer) at the grain of its locks:     *)
(* two records for two identities, as SetShares builds them for two        *)
(* shares of different owners, each with its runLoop goroutine started.    *)
(***************************************************************************)
VARIABLES servers, loops, procs, closer

supVars == <<servers, loops, procs, closer>>

\* most subprocesses one record starts
MaxLaunches == 2

\* a *exec.Cmd is the index of its process in procs[u]; 0 is nil
nilCmd == 0

\* userServer{logf: s.logf}: closed false, cmd nil, addr ""
NewRecord == [closed |-> FALSE, cmd |-> nilCmd, addr |-> ""]

\* go p.runLoop(): the goroutine at the top of its loop, run's locals unset
NewLoop == [pc |-> "runLoop", cmd |-> nilCmd, line |-> ""]

\* the goroutine that closes servers one after the other (the loops of
\* SetShares and Close), in no call of userServer.Close
NoCloser == [pc |-> "idle", server |-> "none", cmd |-> nilCmd, err |-> "nil"]

InitSup ==
  /\ servers = [u \in Users |-> NewRecord]
  /\ loops = [u \in Users |-> NewLoop]
  /\ procs = [u \in Users |-> <<>>]
  /\ closer = NoCloser

\* no records: the state of the supervisor before any SetShares
SupAtRest ==
  /\ servers = <<>>
  /\ loops = <<>>
  /\ procs = <<>>
  /\ closer = NoCloser

\* the subprocesses of u that have not exited
Running(u) == {k \in 1..Len(procs[u]) : procs[u][k] = "running"}

\* runLoop: closed is read under the read lock; return when set
runLoopClosedCheck(u) ==
  /\ loops[u].pc = "runLoop"
  /\ loops' = [loops EXCEPT ![u].pc =
                 IF servers[u].closed THEN "returned" ELSE "run"]
  /\ UNCHANGED <<servers, procs, closer>>

\* run: the command is built and cmd.Start() succeeds
runStart(u) ==
  /\ loops[u].pc = "run"
  /\ Len(procs[u]) < MaxLaunches
  /\ procs' = [procs EXCEPT ![u] = Append(@, "running")]
  /\ loops' = [loops EXCEPT ![u].pc = "storeCmd",
                            ![u].cmd = Len(procs[u]) + 1]
  /\ UNCHANGED <<servers, closer>>

\* run: StdoutPipe, StderrPipe or cmd.Start() fails and run returns the error
runStartFails(u) ==
  /\ loops[u].pc = "run"
  /\ loops' = [loops EXCEPT ![u].pc = "Sleep"]
  /\ UNCHANGED <<servers, procs, closer>>

\* run: s.cmd = cmd under the lock
runStoreCmd(u) ==
  /\ loops[u].pc = "storeCmd"
  /\ servers' = [servers EXCEPT ![u].cmd = loops[u].cmd]
  /\ loops' = [loops EXCEPT ![u].pc = "Scan"]
  /\ UNCHANGED <<procs, closer>>

\* run: the first line of stdout. A running subprocess announces its
\* address; one that has exited left its address or nothing (Text() is ""
\* at end of input).
runScan(u) ==
  /\ loops[u].pc = "Scan"
  /\ \E line \in {"", ServerAddr} :
       /\ procs[u][loops[u].cmd] = "running" => line = ServerAddr
       /\ loops' = [loops EXCEPT ![u].pc = "storeAddr", ![u].line = line]
  /\ UNCHANGED <<servers, procs, closer>>

\* run: the scanner reports an error and run returns without cmd.Wait()
runScanError(u) ==
  /\ loops[u].pc = "Scan"
  /\ loops' = [loops EXCEPT ![u].pc = "Sleep", ![u].cmd = nilCmd]
  /\ UNCHANGED <<servers, procs, closer>>

\* run: s.addr = strings.TrimSpace(addr) under the lock
runStoreAddr(u) ==
  /\ loops[u].pc = "storeAddr"
  /\ servers' = [servers EXCEPT ![u].addr = loops[u].line]
  /\ loops' = [loops EXCEPT ![u].pc = "Wait", ![u].line = ""]
  /\ UNCHANGED <<procs, closer>>

\* run: cmd.Wait() returns once the subprocess has exited, and reaps it
runWait(u) ==
  /\ loops[u].pc = "Wait"
  /\ procs[u][loops[u].cmd] = "exited"
  /\ procs' = [procs EXCEPT ![u][loops[u].cmd] = "reaped"]
  /\ loops' = [loops EXCEPT ![u].pc = "Sleep", ![u].cmd = nilCmd]
  /\ UNCHANGED <<servers, closer>>

\* the loop body ends as a mutant would have it: no further iteration
runLoopSleepReturns(u) ==
  /\ loops[u].pc = "Sleep"
  /\ loops' = [loops EXCEPT ![u].pc = "returned"]
  /\ UNCHANGED <<servers, procs, closer>>

\* runLoop: time.Sleep(1 * time.Second), then the next iteration
runLoopSleep(u) ==
  /\ loops[u].pc = "Sleep"
  /\ loops' = [loops EXCEPT ![u].pc = "runLoop"]
  /\ UNCHANGED <<servers, procs, closer>>

\* a subprocess exits by itself or is killed from outside the program
processExit(u, k) ==
  /\ k \in Running(u)
  /\ procs' = [procs EXCEPT ![u][k] = "exited"]
  /\ UNCHANGED <<servers, loops, closer>>

\* userServer.Close: cmd := s.cmd; s.closed = true under the lock
CloseLock(u) ==
  /\ closer.pc = "idle"
  /\ closer' = [pc |-> "Kill", server |-> u, cmd |-> servers[u].cmd,
                err |-> "nil"]
  /\ servers' = [servers EXCEPT ![u].closed = TRUE]
  /\ UNCHANGED <<loops, procs>>

\* what cmd.Process.Kill() can return for a process in the given state: nil
\* when the signal is sent (a process that has exited and is not yet waited
\* for still takes it), os.ErrProcessDone once the process was waited for
KillErrs(state) ==
  CASE state = "running" -> {"nil"}
    [] state = "exited" -> {"nil"}
    [] state = "reaped" -> {"ErrProcessDone"}

\* userServer.Close: if cmd != nil && cmd.Process != nil, the result of
\* cmd.Process.Kill(); nil otherwise
CloseKill(u) ==
  /\ closer.pc = "Kill"
  /\ closer.server = u
  /\ LET cmd == closer.cmd
     IN IF cmd # nilCmd
        THEN /\ \E err \in KillErrs(procs[u][cmd]) :
                  closer' = [closer EXCEPT !.pc = "returned", !.err = err,
                                           !.cmd = nilCmd]
             /\ procs' = [procs EXCEPT ![u][cmd] =
                            IF @ = "running" THEN "exited" ELSE @]
        ELSE /\ closer' = [closer EXCEPT !.pc = "returned", !.err = "nil"]
             /\ UNCHANGED procs
  /\ UNCHANGED <<servers, loops>>

\* the loop over the old servers has the result and logs an error
CloseReturned ==
  /\ closer.pc = "returned"
  /\ closer' = NoCloser
  /\ UNCHANGED <<servers, loops, procs>>

\* the steps of u's runLoop goroutine
runLoopStep(u) ==
  \/ runLoopClosedCheck(u)
  \/ runStart(u)
  \/ runStartFails(u)
  \/ runStoreCmd(u)
  \/ runScan(u)
  \/ runScanError(u)
  \/ runStoreAddr(u)
  \/ runWait(u)
  \/ runLoopSleep(u)

(***************************************************************************)
(* All the variables, and the ones each part of the program leaves alone.  *)
(***************************************************************************)
vars ==
  <<cfsVars, wfsVars, dspVars, supVars, splitVars, setVars, handlerVars>>

\* the variables each part leaves alone
notCFS == <<wfsVars, dspVars, supVars, splitVars, setVars, handlerVars>>
notWFS == <<cfsVars, dspVars, supVars, splitVars, setVars, handlerVars>>
notDsp == <<cfsVars, wfsVars, supVars, splitVars, setVars, handlerVars>>
notSup == <<cfsVars, wfsVars, dspVars, splitVars, setVars, handlerVars>>
notSplit ==
  <<cfsVars, wfsVars, dspVars, supVars, setVars, handlerVars>>
notSet ==
  <<cfsVars, wfsVars, supVars, splitVars, shares, userServers,
    fileServerAddr, permissions, resp, handlerVars>>
notHandler == <<cfsVars, wfsVars, supVars, splitVars, setVars>>

(***************************************************************************)
(* Claims about SetShares and the snapshot of a request.                   *)
(***************************************************************************)
\* the user servers the call that published share map ref published with
\* it: its own with AllowShareAs; without, SetShares leaves s.userServers
\* at the map of NewFileSystemForRemote
PublishedWith(ref) == IF allowShareAs THEN ref ELSE initialRef

\* C18: under any interleaving of calls of SetShares and requests, the
\* share map and the user-server map a request snapshots were published by
\* the same call of SetShares, or are both the initial maps: never the new
\* share map with the old user servers or the reverse.
C18_SnapshotFromOneCall ==
  snapshot.taken => snapshot.userServers = PublishedWith(snapshot.sharesMap)

\* a request snapshots the maps of the second call while another call, with
\* other shares, waits for the lock
C18_Witness ==
  /\ snapshot.taken
  /\ allowShareAs
  /\ snapshot.sharesMap = 2
  /\ \E c \in Setters : setters[c].pc = "Lock" /\ setters[c].id = 3
  /\ heap[1].shares # heap[2].shares
  /\ heap[3].shares # heap[2].shares

\* no call of SetShares is in progress
AllReturned == \A c \in Setters : setters[c].pc = "idle"

\* the identities that own a share of the map
Owners(sharesMap) == {sharesMap[n].As : n \in DOMAIN sharesMap}

\* C19: with AllowShareAs, once all calls of SetShares have returned,
\* s.userServers has exactly one user server for each identity that owns a
\* share of s.shares, holding exactly the shares of that identity, and every
\* user server of every other map built so far has had Close called on it,
\* by a caller that had released mx.
C19_PoolMatchesShares ==
  (allowShareAs /\ AllReturned) =>
    LET current == userServersAt(userServersRef)
        sharesMap == sharesAt(sharesRef)
    IN /\ DOMAIN current = Owners(sharesMap)
       /\ \A u \in DOMAIN current :
            current[u].shares = {n \in DOMAIN sharesMap : sharesMap[n].As = u}
       /\ \A i \in 1..Len(heap) : i # userServersRef =>
            \A u \in DOMAIN heap[i].servers :
              heap[i].servers[u].closed /\ ~heap[i].servers[u].locked

\* two concurrent calls have returned, the one that began first published
\* last; its two user servers are current and the user servers of the other
\* call are closed
C19_Witness ==
  /\ allowShareAs
  /\ AllReturned
  /\ Len(heap) = 2
  /\ userServersRef = 1
  /\ DOMAIN heap[1].servers = Users
  /\ DOMAIN heap[2].servers # {}
  /\ \A u \in DOMAIN heap[2].servers : heap[2].servers[u].closed

(***************************************************************************)
(* Claims about the supervisor.                                            *)
(***************************************************************************)
\* a step of record u: of its goroutine, of one of its subprocesses
StepOf(u) == loops'[u] # loops[u] \/ procs'[u] # procs[u]

\* a step of one record leaves the other record and its subprocesses alone
Independent ==
  \A u \in Users : StepOf(u) =>
    \A v \in Users \ {u} : servers'[v] = servers[v] /\ procs'[v] = procs[v]

\* the k-th subprocess of u, the last one started, has exited and u is open
ExitedOpen(u, k) ==
  /\ Len(procs[u]) = k
  /\ procs[u][k] # "running"
  /\ ~servers[u].closed

CloseDone(u) ==
  servers[u].closed /\ ~(closer.pc = "Kill" /\ closer.server = u)

\* C12: once Close has been called on a record, wherever its supervision
\* loop stands, no subprocess of the record is launched after Close has
\* returned, and eventually the loop has exited and no subprocess of the
\* record is running.
C12_CloseTerminates ==
  /\ [][\A u \in Users : CloseDone(u) => Len(procs'[u]) = Len(procs[u])]_vars
  /\ \A u \in Users :
       servers[u].closed ~> (loops[u].pc = "returned" /\ Running(u) = {})

\* C13: every call of Close on a record returns no error and leaves the
\* record closed, whether it is the first call or a later one and whether
\* the record's subprocess runs, has exited or was never started.
C13_CloseIdempotent ==
  closer.pc = "returned" =>
    closer.err = "nil" /\ servers[closer.server].closed

(***************************************************************************)
(* C22: whenever the announced address of a record is not empty, a         *)
(* subprocess of that record is running: the address is empty before the   *)
(* first announcement and again once the subprocess has exited, so a       *)
(* request never resolves a share to the address of a dead subprocess.     *)
(***************************************************************************)
C22_AddrOfRunning ==
  \A u \in Users : servers[u].addr # "" => Running(u) # {}

(***************************************************************************)
(* C23: each record has at most one subprocess that has been started and   *)
(* has not exited, because run returns only after the subprocess it        *)
(* started has exited, a failure to read the address line included; and    *)
(* once run has stored the handle of the subprocess it started, the        *)
(* stored handle is that live subprocess.                                  *)
(***************************************************************************)
C23_OneLiveSubprocess ==
  \A u \in Users :
    /\ Cardinality(Running(u)) <= 1
    /\ (Running(u) # {} /\ loops[u].pc # "storeCmd")
         => servers[u].cmd \in Running(u)

(***************************************************************************)
(* Further claims about the composite filesystem and about Split.          *)
(***************************************************************************)
\* a flag that asks for writing or appending
WriteFlag(flag) ==
  hasFlag(flag, O_WRONLY) \/ hasFlag(flag, O_RDWR) \/ hasFlag(flag, O_APPEND)

\* C16: OpenFile on the root of the composite with O_WRONLY, O_RDWR or
\* O_APPEND returns an error and no handle; only an open of the root for
\* reading returns the read-only directory handle.
C16_RootWriteRejected ==
  (ret.op = "OpenFile" /\ IsRoot(ret.name))
    => IF WriteFlag(ret.flag)
       THEN ret.err \notin {"nil", "child"} /\ ret.handle # "DirFile"
       ELSE ret.err = "nil" /\ ret.handle = "DirFile"

\* the segments, in their order, are what lies between the separators of
\* the path without its leading and trailing separators
SegmentsOfTrimmed ==
  /\ JoinSep(segments) = Trim(splitPath)
  /\ \A i \in 1..Len(segments) :
       \A j \in 1..Len(segments[i]) : segments[i][j] # sepString

\* C17: Split returns the segments of a path with its leading and trailing
\* separators trimmed, in their order; it never returns the empty sequence:
\* for the empty path and for the root "/", the paths IsRoot holds for, it
\* returns one segment, the empty string.
C17_SplitNeverEmpty ==
  splitPc = "returned" =>
    /\ SegmentsOfTrimmed
    /\ Len(segments) >= 1
    /\ IsRoot(splitPath) => segments = << <<>> >>

\* Split has returned for the root path
C17_Witness ==
  /\ splitPc = "returned"
  /\ splitPath = <<sepString>>
  /\ segments = << <<>> >>

\* C17 as the specification states it: for the empty path and for the root
\* Split returns the empty sequence, and for no other path
C17_SplitEmptyForRoot ==
  splitPc = "returned" =>
    /\ SegmentsOfTrimmed
    /\ IsRoot(splitPath) <=> segments = <<>>

\* the segments after the first, rejoined with the separator as they are
Remainder(name) == JoinSep(Tail(SplitOf[name]))

\* the segments after the first that are neither empty nor "."
Kept(name) ==
  SelectSeq(Tail(SplitOf[name]), LAMBDA seg : seg # <<>> /\ seg # <<".">>)

\* a segment ".." stands after a segment it resolves against
Resolves(segs) ==
  \E i \in 2..Len(segs) : segs[i] = <<".", ".">> /\ segs[i - 1] # <<".", ".">>

\* OpenFile or Mkdir has handed a child a path of more than one segment
Forwarded ==
  /\ ret.op \in {"OpenFile", "Mkdir"}
  /\ ret.err = "child"
  /\ Len(SplitOf[ret.name]) > 1

Mutating(c) == c.op = "Mkdir" \/ (c.op = "OpenFile" /\ WriteFlag(c.flag))

C21_ReadOnlyNeverMutated ==
  \A c \in routed :
    Mutating(c) => permissions[c.child] # "PermissionReadOnly"

(***************************************************************************)
(* The specifications.  Each one runs one part of the program and leaves   *)
(* the variables of the other parts where their construction put them.     *)
(***************************************************************************)

\* a composite filesystem without children, in no call
CfsAtRest == InitCFS /\ childrenMap = EmptyMap

\* an adapter without a cache on an empty backend, in no call
WfsAtRest ==
  /\ InitWFS
  /\ ~cacheOn
  /\ remote = [p \in WPaths |-> "none"]

\* no call of SetShares, no request
SetAtRest == InitSet

\* a dispatcher without shares, serving no request
DspAtRest ==
  /\ InitDsp
  /\ ~allowShareAs
  /\ permissions = [n \in ShareNames |-> "PermissionNone"]

NextCFS ==
  \/ Taken /\ AddChildCall /\ UNCHANGED notCFS
  \/ Taken /\ RemoveChildCall /\ UNCHANGED notCFS
  \/ Taken /\ SetChildrenCall /\ UNCHANGED notCFS
  \/ Taken /\ MutatorLock /\ UNCHANGED notCFS
  \/ Taken /\ AddChildPut /\ UNCHANGED notCFS
  \/ Taken /\ RemoveChildDelete /\ UNCHANGED notCFS
  \/ Taken /\ SetChildrenSwap /\ UNCHANGED notCFS
  \/ Taken /\ rebuildChildren /\ UNCHANGED notCFS
  \/ Taken /\ MutatorUnlock /\ UNCHANGED notCFS
  \/ Taken /\ SetChildrenClose /\ UNCHANGED notCFS
  \/ OpenFileAny /\ UNCHANGED notCFS
  \/ MkdirAny /\ UNCHANGED notCFS
  \/ GetChildAny /\ UNCHANGED notCFS
  \/ LoadChildren /\ UNCHANGED notCFS
  \/ ClientReturn /\ UNCHANGED notCFS

InitCompositeFS == InitCFS /\ WfsAtRest /\ DspAtRest /\ SupAtRest /\ SplitAtRest /\ SetAtRest /\ HandlerAtRest

SpecCFS == InitCompositeFS /\ [][NextCFS]_vars

NextWFS ==
  \/ Delivered /\ (\E name \in WPaths : WfsMkdirInvalidate(name))
       /\ UNCHANGED notWFS
  \/ Delivered /\ WfsMkdirCall /\ UNCHANGED notWFS
  \/ Delivered /\ (\E name \in WPaths : WfsRemoveAllInvalidate(name))
       /\ UNCHANGED notWFS
  \/ Delivered /\ WfsRemoveAllCall /\ UNCHANGED notWFS
  \/ Delivered /\ (\E oldName, newName \in WPaths :
                  WfsRenameInvalidate(oldName, newName))
       /\ UNCHANGED notWFS
  \/ Delivered /\ WfsRenameCall /\ UNCHANGED notWFS
  \/ Delivered /\ (\E name \in WPaths, flag \in Flags :
                  WfsOpenFileAppend(name, flag))
       /\ UNCHANGED notWFS
  \/ Delivered /\ (\E name \in WPaths, flag \in Flags :
        WfsOpenFileWriteInvalidate(name, flag)) /\ UNCHANGED notWFS
  \/ Delivered /\ WfsOpenFileWriteStat /\ UNCHANGED notWFS
  \/ Delivered /\ (\E name \in WPaths, flag \in Flags :
                  WfsOpenFileReadStat(name, flag))
       /\ UNCHANGED notWFS
  \/ Delivered /\ WfsOpenFileReadStream /\ UNCHANGED notWFS
  \/ Delivered /\ (\E t \in StatThreads, name \in WPaths :
                  WfsStatLookup(t, name))
       /\ UNCHANGED notWFS
  \/ Delivered /\ (\E t \in StatThreads : doStat(t)) /\ UNCHANGED notWFS
  \/ Delivered /\ (\E t \in StatThreads : WfsStatStore(t)) /\ UNCHANGED notWFS
  \/ Delivered /\ (\E name \in WPaths : CacheExpire(name)) /\ UNCHANGED notWFS
  \/ Delivered /\ WriteLoad /\ UNCHANGED notWFS
  \/ Delivered /\ WritePipe /\ UNCHANGED notWFS
  \/ Delivered /\ WriteWait /\ UNCHANGED notWFS
  \/ Delivered /\ CloseLoad /\ UNCHANGED notWFS
  \/ Delivered /\ ClosePipe /\ UNCHANGED notWFS
  \/ Delivered /\ UploadRead /\ UNCHANGED notWFS
  \/ Delivered /\ UploadEOF /\ UNCHANGED notWFS
  \/ Delivered /\ UploadAbort /\ UNCHANGED notWFS
  \/ Delivered /\ UploadResponse /\ UNCHANGED notWFS
  \/ Delivered /\ UploadStoreError /\ UNCHANGED notWFS
  \/ Delivered /\ UploadClosePipe /\ UNCHANGED notWFS
  \/ TakeResults /\ UNCHANGED notWFS

InitWebDAVFS == InitWFS /\ CfsAtRest /\ DspAtRest /\ SupAtRest /\ SplitAtRest /\ SetAtRest /\ HandlerAtRest

SpecWFS == InitWebDAVFS /\ [][NextWFS]_vars

NextDispatch ==
  \/ NoRequest /\ (\E addr \in {"", ServerAddr} : SetFileServerAddr(addr))
       /\ UNCHANGED notDsp
  \/ NoRequest /\ (\E newShares \in ShareMaps : SetShares(newShares))
       /\ UNCHANGED notDsp
  \/ NoRequest /\ Close /\ UNCHANGED notDsp
  \/ NoRequest /\ (\E u \in Users : runLoop(u)) /\ UNCHANGED notDsp
  \/ NoRequest /\ (\E u \in Users : run(u)) /\ UNCHANGED notDsp
  \/ NoRequest /\ (\E u \in Users : runReturn(u)) /\ UNCHANGED notDsp
  \/ NoRequest /\ (\E method \in Methods, path \in ReqPaths :
                     ServeHTTP(method, path)) /\ UNCHANGED notDsp
  \/ Responded /\ UNCHANGED notDsp

InitDispatch == InitDsp /\ CfsAtRest /\ WfsAtRest /\ SupAtRest /\ SplitAtRest /\ SetAtRest /\ HandlerAtRest

SpecDispatch == InitDispatch /\ [][NextDispatch]_vars


NextSupervisor ==
  \/ (\E u \in Users : runLoopClosedCheck(u)) /\ UNCHANGED notSup
  \/ (\E u \in Users : runStart(u)) /\ UNCHANGED notSup
  \/ (\E u \in Users : runStartFails(u)) /\ UNCHANGED notSup
  \/ (\E u \in Users : runStoreCmd(u)) /\ UNCHANGED notSup
  \/ (\E u \in Users : runScan(u)) /\ UNCHANGED notSup
  \/ (\E u \in Users : runScanError(u)) /\ UNCHANGED notSup
  \/ (\E u \in Users : runStoreAddr(u)) /\ UNCHANGED notSup
  \/ (\E u \in Users : runWait(u)) /\ UNCHANGED notSup
  \/ (\E u \in Users : runLoopSleep(u)) /\ UNCHANGED notSup
  \/ (\E u \in Users, k \in 1..MaxLaunches : processExit(u, k))
       /\ UNCHANGED notSup
  \/ (\E u \in Users : CloseLock(u)) /\ UNCHANGED notSup
  \/ (\E u \in Users : CloseKill(u)) /\ UNCHANGED notSup
  \/ CloseReturned /\ UNCHANGED notSup

InitSupervisor ==
  InitSup /\ CfsAtRest /\ WfsAtRest /\ DspAtRest /\ SplitAtRest /\ SetAtRest /\ HandlerAtRest

SpecSupervisor == InitSupervisor /\ [][NextSupervisor]_vars

\* Every goroutine that can take a step takes one: the runLoop goroutine of
\* each record and the caller inside Close.  A subprocess is under no such
\* obligation, it may run forever.  A launch that is tried again and again
\* succeeds at some time.
SupervisorFairness ==
  \A u \in Users :
    /\ WF_vars(runLoopStep(u) /\ UNCHANGED notSup)
    /\ SF_vars(runStart(u) /\ UNCHANGED notSup)
    /\ WF_vars(CloseKill(u) /\ UNCHANGED notSup)

SpecSupervisorFair ==
  InitSupervisor /\ [][NextSupervisor]_vars /\ SupervisorFairness


NextSplit ==
  \/ SplitReturn /\ UNCHANGED notSplit
  \/ (\E path \in Paths : SplitCall(path)) /\ UNCHANGED notSplit

InitPathutil ==
  InitSplit /\ CfsAtRest /\ WfsAtRest /\ DspAtRest /\ SupAtRest /\ SetAtRest /\ HandlerAtRest

SpecSplit == InitPathutil /\ [][NextSplit]_vars


NextSetShares ==
  \/ NoSnapshotHeld
       /\ (\E c \in Setters, newShares \in ShareMaps :
             SetSharesCall(c, newShares))
       /\ UNCHANGED notSet
  \/ NoSnapshotHeld
       /\ (\E c \in Setters, newShares \in ShareMaps :
             SetSharesBuild(c, newShares))
       /\ UNCHANGED notSet
  \/ NoSnapshotHeld /\ (\E c \in Setters : SetSharesLock(c))
       /\ UNCHANGED notSet
  \/ NoSnapshotHeld /\ (\E c \in Setters : SetSharesStoreShares(c))
       /\ UNCHANGED notSet
  \/ NoSnapshotHeld /\ (\E c \in Setters : SetSharesSwap(c))
       /\ UNCHANGED notSet
  \/ NoSnapshotHeld /\ (\E c \in Setters : SetSharesUnlock(c))
       /\ UNCHANGED notSet
  \/ NoSnapshotHeld /\ (\E c \in Setters : SetSharesCloseOld(c))
       /\ UNCHANGED notSet
  \/ NoSnapshotHeld /\ (\E c \in Setters : SetSharesReturn(c))
       /\ UNCHANGED notSet
  \/ ServeSnapshot /\ UNCHANGED notSet
  \/ ServeReturn /\ UNCHANGED notSet

\* a dispatcher on a platform with or without AllowShareAs, before the
\* first SetShares
InitSetShares ==
  /\ InitSet
  /\ InitDsp
  /\ permissions = [n \in ShareNames |-> "PermissionNone"]
  /\ CfsAtRest /\ WfsAtRest /\ SupAtRest /\ SplitAtRest /\ HandlerAtRest

SpecSetShares == InitSetShares /\ [][NextSetShares]_vars


\* the client's calls alone, on a composite nobody changes
NextForward ==
  \/ OpenFileLong /\ UNCHANGED notCFS
  \/ MkdirLong /\ UNCHANGED notCFS
  \/ ClientReturn /\ UNCHANGED notCFS

InitForward ==
  InitCFS /\ WfsAtRest /\ DspAtRest /\ SupAtRest /\ SplitAtRest /\ SetAtRest /\ HandlerAtRest

SpecForward == InitForward /\ [][NextForward]_vars


\* the requests of one caller with the calls the handler makes for them, on
\* a platform without AllowShareAs
NextHandler ==
  \/ NoRequest /\ (\E addr \in {"", ServerAddr} : SetFileServerAddr(addr))
       /\ UNCHANGED notDsp
  \/ NoRequest /\ (\E newShares \in ShareMaps : SetShares(newShares))
       /\ UNCHANGED notDsp
  \/ NoRequest
       /\ (\E method \in Methods, path \in ReqPaths, destination \in DestPaths,
              kind \in SourceKinds :
              HandleHTTP(method, path, destination, kind))
       /\ UNCHANGED notHandler
  \/ Handled /\ UNCHANGED notHandler

InitHandling ==
  /\ InitDsp
  /\ ~allowShareAs
  /\ InitHandler
  /\ CfsAtRest /\ WfsAtRest /\ SupAtRest /\ SplitAtRest /\ SetAtRest

SpecHandler == InitHandling /\ [][NextHandler]_vars

====
